---- MODULE Spec2Model ----
(***************************************************************************)
(* Optimistic client-state synchronisation of the to-do board:            *)
(*   - the tree reconciler (pure functions over the nested item list),    *)
(*   - the persisted offline operation queue and its replay,              *)
(*   - the status update batcher,                                         *)
(*   - the live update (server push) message handler.                     *)
(* Sources: src/unnamed/part_006 (board page), src/src/utils/offlineQueue.ts *)
(***************************************************************************)
EXTENDS Integers, Sequences, FiniteSets, TLC

(***************************************************************************)
(* Bounds of the model                                                     *)
(***************************************************************************)
MaxNodes == 3        \* nodes (roots + children) of a tree drawn as input
MaxEnqueues == 3     \* calls of enqueueOperation in one behaviour
MaxEvents == 3       \* status changes, flushes and deletions started in one behaviour
MaxSubmits == 2      \* submissions (create, edit, delete) and pushed messages in one behaviour of SpecCreate and SpecEdit
MaxDrains == 2       \* creates submitted in one behaviour of SpecDrain
MaxChanges == 1      \* status changes of the first user in one behaviour of SpecSession
MaxErrors == 2        \* error events delivered to EventSources in one behaviour
MaxMessages == 2     \* pushed messages delivered in one behaviour

(***************************************************************************)
(* Values                                                                  *)
(***************************************************************************)
NoId == 0            \* parentId of a root (null); never the id of an item
Ids == 1..3          \* server-assigned ids
Status == {"TODO", "IN_PROGRESS", "DONE"}
Missing == "missing" \* a field absent from a pushed JSON item

\* A node of the tree: roots carry parentId = NoId, children the root's id.
Leaf(id, status, title, parentId) ==
    [id |-> id, status |-> status, title |-> title, parentId |-> parentId,
     subtodos |-> <<>>]

Node(id, status, title, parentId, subtodos) ==
    [id |-> id, status |-> status, title |-> title, parentId |-> parentId,
     subtodos |-> subtodos]

(***************************************************************************)
(* Tree reconciler                                                         *)
(***************************************************************************)
RECURSIVE cloneTodos(_)
cloneTodos(list) ==
    [i \in 1..Len(list) |->
        [list[i] EXCEPT !.subtodos = cloneTodos(list[i].subtodos)]]

\* variant: findIndex + splice at the root level instead of filter
removeTodoFromTree_firstOnly(list, targetId) ==
    IF \E i \in 1..Len(list) : list[i].id = targetId
    THEN LET k == CHOOSE i \in 1..Len(list) :
                    /\ list[i].id = targetId
                    /\ \A j \in 1..(i - 1) : list[j].id # targetId
         IN  SubSeq(list, 1, k - 1) \o SubSeq(list, k + 1, Len(list))
    ELSE list

RECURSIVE removeTodoFromTree(_, _)
removeTodoFromTree(list, targetId) ==
    LET kept == SelectSeq(list, LAMBDA todo : todo.id # targetId)
    IN  [i \in 1..Len(kept) |->
            [kept[i] EXCEPT
                !.subtodos = removeTodoFromTree(kept[i].subtodos, targetId)]]

RECURSIVE addSubTodoToParent(_, _, _)
addSubTodoToParent(list, parentId, subTodo) ==
    [i \in 1..Len(list) |->
        IF list[i].id = parentId
        THEN [list[i] EXCEPT !.subtodos = Append(list[i].subtodos, subTodo)]
        ELSE IF Len(list[i].subtodos) > 0
        THEN [list[i] EXCEPT
                !.subtodos = addSubTodoToParent(list[i].subtodos, parentId, subTodo)]
        ELSE list[i]]

\* variant: replaces at the root level only
upsertTodoInTree_rootsOnly(list, updated) ==
    [i \in 1..Len(list) |->
        IF list[i].id = updated.id THEN updated ELSE list[i]]

RECURSIVE upsertTodoInTree(_, _)
upsertTodoInTree(list, updated) ==
    [i \in 1..Len(list) |->
        IF list[i].id = updated.id
        THEN updated
        ELSE IF Len(list[i].subtodos) > 0
        THEN [list[i] EXCEPT
                !.subtodos = upsertTodoInTree(list[i].subtodos, updated)]
        ELSE list[i]]

\* variant: cascades whatever the status is
applyStatusToList_cascadeAny(list, targetId, status) ==
    [i \in 1..Len(list) |->
        IF list[i].id = targetId
        THEN [list[i] EXCEPT
                !.status = status,
                !.subtodos =
                    [j \in 1..Len(list[i].subtodos) |->
                        [list[i].subtodos[j] EXCEPT !.status = status]]]
        ELSE IF \E j \in 1..Len(list[i].subtodos) :
                    list[i].subtodos[j].id = targetId
        THEN [list[i] EXCEPT
                !.subtodos =
                    [j \in 1..Len(list[i].subtodos) |->
                        IF list[i].subtodos[j].id = targetId
                        THEN [list[i].subtodos[j] EXCEPT !.status = status]
                        ELSE list[i].subtodos[j]]]
        ELSE list[i]]

applyStatusToList(list, targetId, status) ==
    [i \in 1..Len(list) |->
        IF list[i].id = targetId
        THEN [list[i] EXCEPT
                !.status = status,
                !.subtodos =
                    IF status = "DONE"
                    THEN [j \in 1..Len(list[i].subtodos) |->
                            [list[i].subtodos[j] EXCEPT !.status = "DONE"]]
                    ELSE list[i].subtodos]
        ELSE IF \E j \in 1..Len(list[i].subtodos) :
                    list[i].subtodos[j].id = targetId
        THEN [list[i] EXCEPT
                !.subtodos =
                    [j \in 1..Len(list[i].subtodos) |->
                        IF list[i].subtodos[j].id = targetId
                        THEN [list[i].subtodos[j] EXCEPT !.status = status]
                        ELSE list[i].subtodos[j]]]
        ELSE list[i]]

\* updates is the partial record of descriptive fields; the model carries
\* the title as the one descriptive field of an item.
RECURSIVE applyMetaToList(_, _, _)
applyMetaToList(list, targetId, updates) ==
    [i \in 1..Len(list) |->
        IF list[i].id = targetId
        THEN [list[i] EXCEPT !.title = updates.title]
        ELSE IF Len(list[i].subtodos) > 0
        THEN [list[i] EXCEPT
                !.subtodos = applyMetaToList(list[i].subtodos, targetId, updates)]
        ELSE list[i]]


(***************************************************************************)
(* State                                                                   *)
(***************************************************************************)
VARIABLES
    todos,           \* useState<Todo[]>: the in-memory tree
    todosRef,        \* todosRef.current: copy of todos kept by the sync effect
    cache,           \* localStorage[LOCAL_CACHE_KEY]
    error,           \* useState error banner ("" when null)
    user,            \* id of the authenticated user, NoUser when signed out
    online,          \* navigator.onLine
    queueStore,      \* localStorage[QUEUE_KEY]
    flush,           \* the running invocations of flushOfflineQueue
    statusQueueRef,  \* statusQueueRef.current
    statusStore,     \* localStorage[STATUS_QUEUE_STORAGE_KEY]
    batches,         \* batch status requests awaiting their response
    deletes,         \* delete requests awaiting their response
    ev,              \* the handler that ran last, with its inputs
    hist,            \* history of the calls made so far (for the properties)
    token,           \* the stored auth token is present (api module)
    sse,             \* the live-update effect: its closure and its EventSources
    creates,         \* create handlers awaiting their response
    loads,           \* loadTodos invocations awaiting their response
    edits,           \* handleUpdateDetails invocations awaiting their response
    server,          \* the items the server holds for the user
    now,             \* Date.now() of the last submission
    page,            \* the page that is mounted; HomePage's hasRestoredStatusQueueRef
    pTree, pCall, pOut, pOut2   \* reconciler call: input, arguments, results

vars == <<todos, todosRef, cache, error, user, online, queueStore, flush,
          statusQueueRef, statusStore, batches, deletes, ev, hist,
          token, sse, creates, loads, edits, server, now, page,
          pTree, pCall, pOut, pOut2>>

appVars == <<todos, todosRef, cache, error, user, online, queueStore, flush,
             statusQueueRef, statusStore, batches, deletes, ev, hist,
             token, sse, creates, loads, edits, server, now, page>>

pureVars == <<pTree, pCall, pOut, pOut2>>

\* in-flight handlers of the board and what they talk to
requestVars == <<creates, loads, edits, server, now>>

boardVars == <<token, sse, requestVars>>

\* ev of a handler no property refers to
Quiet == [name |-> "-"]

NoUser == 0
Users == 1..2

\* the page a route shows; hasRestored is hasRestoredStatusQueueRef.current of
\* the HomePage instance, meaningful while the board is mounted
BoardPage(restored) == [at |-> "board", hasRestored |-> restored]

\* a localStorage slot: removed (getItem gives null) or holding a JSON value
NoItem == [present |-> FALSE, value |-> <<>>]
Item(v) == [present |-> TRUE, value |-> v]

NoCall == [op |-> "none", id |-> NoId, status |-> "TODO",
           item |-> Leaf(NoId, "TODO", "a", NoId)]

(***************************************************************************)
(* The live-update effect: stopped and retryTimer of its closure, the      *)
(* timers it has set that have neither fired nor been cleared,             *)
(* eventSourceRef.current (index into sources, 0 for null) and every       *)
(* EventSource it has constructed.                                         *)
(***************************************************************************)
RetryDelayMs == 3000

\* no effect instance: the effect has not run or returned before connect()
SseNone ==
    [active |-> FALSE, stopped |-> FALSE, retryTimer |-> 0, nTimers |-> 0,
     timers |-> {}, ref |-> 0, sources |-> <<>>]

\* variant: connect() does not look at stopped
connect_ignoreStopped(c) ==
    LET closed == IF c.ref # 0
                  THEN [c.sources EXCEPT ![c.ref].open = FALSE]
                  ELSE c.sources
    IN  [c EXCEPT !.sources = Append(closed, [open |-> TRUE]),
                  !.ref = Len(closed) + 1]

connect(c) ==
    IF c.stopped THEN c
    ELSE LET closed == IF c.ref # 0
                       THEN [c.sources EXCEPT ![c.ref].open = FALSE]
                       ELSE c.sources
         IN  [c EXCEPT !.sources = Append(closed, [open |-> TRUE]),
                       !.ref = Len(closed) + 1]

\* the effect body for an authenticated user with a stored token
SseConnected == connect([SseNone EXCEPT !.active = TRUE])

\* variant: the error handler only closes the source
onerror_noRetry(c, s) ==
    [c EXCEPT !.sources[s].open = FALSE]

\* source.onerror of sources[s]
onerror(c, s) ==
    LET closed == [c EXCEPT !.sources[s].open = FALSE] IN
    IF c.stopped THEN closed
    ELSE [closed EXCEPT
            !.nTimers = @ + 1,
            !.retryTimer = c.nTimers + 1,
            !.timers = @ \cup {[id |-> c.nTimers + 1, delay |-> RetryDelayMs]}]

\* the cleanup the effect returned
teardown(c) ==
    IF ~c.active \/ c.stopped THEN c
    ELSE [c EXCEPT
            !.stopped = TRUE,
            !.timers = {t \in @ : t.id # c.retryTimer},
            !.ref = 0,
            !.sources = IF c.ref # 0 THEN [@ EXCEPT ![c.ref].open = FALSE]
                        ELSE @]

LiveOpen == \E s \in 1..Len(sse.sources) : sse.sources[s].open

\* the server side of the requests: the user's items and the next id to assign
ServerOf(tree, nextId) == [tree |-> tree, nextId |-> nextId]

(***************************************************************************)
(* Input trees: every tree of at most MaxNodes nodes, two levels deep,     *)
(* children pointing at their root; ids may repeat. A tree is given by its *)
(* shape (the number of children of each root) and the id and status of    *)
(* each node in preorder.                                                  *)
(***************************************************************************)
RECURSIVE ShapesExact(_)
ShapesExact(n) ==
    IF n = 0 THEN {<<>>}
    ELSE UNION {{<<k>> \o t : t \in ShapesExact(n - 1 - k)} : k \in 0..(n - 1)}

Labels == Ids \X Status

RECURSIVE Offset(_, _)
Offset(shape, i) ==
    IF i = 1 THEN 0 ELSE Offset(shape, i - 1) + 1 + shape[i - 1]

BuildTree(shape, labels) ==
    [i \in 1..Len(shape) |->
        LET o == Offset(shape, i) + 1 IN
        Node(labels[o][1], labels[o][2], "a", NoId,
             [j \in 1..shape[i] |->
                Leaf(labels[o + j][1], labels[o + j][2], "a", labels[o][1])])]

\* items handed to the reconciler: a confirmed leaf or a root with one child
ArgItems ==
    {Leaf(i, s, "b", NoId) : i \in Ids, s \in {"TODO", "DONE"}}
    \cup {Node(i, "DONE", "b", NoId, <<Leaf(i, "TODO", "b", i)>>) : i \in Ids}

RECURSIVE AllIds(_)
AllIds(list) ==
    IF Len(list) = 0 THEN <<>>
    ELSE <<list[1].id>> \o AllIds(list[1].subtodos) \o AllIds(Tail(list))

SeqToSet(s) == {s[i] : i \in 1..Len(s)}

HasId(list, id) == id \in SeqToSet(AllIds(list))

UniqueIds(list) == Cardinality(SeqToSet(AllIds(list))) = Len(AllIds(list))

(***************************************************************************)
(* Specification of the reconciler alone: a tree is drawn, one function is *)
(* applied to it, and applied again to its own result.                     *)
(***************************************************************************)
HistInit ==
    [enqueued |-> <<>>, base |-> <<>>,
     pending |-> {}, unsent |-> {},
     coalesced |-> {},
     lastStatus |-> [i \in Ids |-> "TODO"],
     firstTree |-> [i \in Ids |-> <<>>],
     confirmedTemps |-> {}, nConfirmed |-> 0,
     queuedTemps |-> {}, nRefused |-> 0,
     nEnq |-> 0, nEvents |-> 0, nMsg |-> 0, nErr |-> 0,
     signedOut |-> FALSE]

AppIdle ==
    /\ todos = <<>> /\ todosRef = <<>> /\ cache = NoItem /\ error = ""
    /\ user = NoUser /\ online = TRUE
    /\ queueStore = NoItem
    /\ flush = <<>>
    /\ statusQueueRef = <<>> /\ statusStore = NoItem
    /\ batches = <<>> /\ deletes = <<>>
    /\ ev = [name |-> "init"]
    /\ hist = HistInit
    /\ token = FALSE /\ sse = SseNone
    /\ creates = <<>> /\ loads = <<>> /\ edits = <<>>
    /\ server = ServerOf(<<>>, 1) /\ now = 0
    /\ page = BoardPage(TRUE)

InitTree ==
    /\ AppIdle
    /\ \E n \in 0..MaxNodes :
        \E shape \in ShapesExact(n), labels \in [1..n -> Labels] :
            pTree = BuildTree(shape, labels)
    /\ pCall = NoCall
    /\ pOut = <<>> /\ pOut2 = <<>>

Call(c, out, out2) ==
    /\ pCall.op = "none"
    /\ pCall' = c
    /\ pOut' = out
    /\ pOut2' = out2
    /\ UNCHANGED <<pTree>>
    /\ UNCHANGED appVars

CallRemove ==
    \E id \in Ids :
        Call([NoCall EXCEPT !.op = "remove", !.id = id],
             removeTodoFromTree(pTree, id),
             removeTodoFromTree(removeTodoFromTree(pTree, id), id))

CallAdd ==
    \E id \in Ids :
        LET sub == Leaf(3, "TODO", "b", id) IN
        Call([NoCall EXCEPT !.op = "add", !.id = id, !.item = sub],
             addSubTodoToParent(pTree, id, sub),
             addSubTodoToParent(addSubTodoToParent(pTree, id, sub), id, sub))

CallUpsert ==
    \E item \in ArgItems :
        Call([NoCall EXCEPT !.op = "upsert", !.id = item.id, !.item = item],
             upsertTodoInTree(pTree, item),
             upsertTodoInTree(upsertTodoInTree(pTree, item), item))

CallStatus ==
    \E id \in Ids, s \in Status :
        Call([NoCall EXCEPT !.op = "applyStatus", !.id = id, !.status = s],
             applyStatusToList(pTree, id, s),
             applyStatusToList(applyStatusToList(pTree, id, s), id, s))

CallMeta ==
    \E id \in Ids :
        LET updates == [title |-> "b"] IN
        Call([NoCall EXCEPT !.op = "applyMeta", !.id = id,
                            !.item = Leaf(NoId, "TODO", "b", NoId)],
             applyMetaToList(pTree, id, updates),
             applyMetaToList(applyMetaToList(pTree, id, updates), id, updates))

NextTree == CallRemove \/ CallAdd \/ CallUpsert \/ CallStatus \/ CallMeta

SpecTree == InitTree /\ [][NextTree]_vars


(***************************************************************************)
(* Offline operation queue (offlineQueue.ts)                               *)
(***************************************************************************)
\* OfflineOperation; the fields an operation type does not have are NoId / ""
CreateOp(title, parentId) ==
    [type |-> "createTodo", title |-> title, parentId |-> parentId,
     id |-> NoId, status |-> "TODO"]

StatusOp(id, status) ==
    [type |-> "updateStatus", title |-> "", parentId |-> NoId,
     id |-> id, status |-> status]

\* the operations a caller may hand to enqueueOperation
OpPool == {CreateOp("a", NoId), StatusOp(1, "DONE")}

\* getItem + JSON.parse: a removed key reads as the empty list
readQueue(store) == IF store.present THEN store.value ELSE <<>>

\* an empty list removes the key, anything else is stored as JSON
writeQueue(queue) == IF Len(queue) = 0 THEN NoItem ELSE Item(queue)

\* variant: unshift instead of push
enqueueOperation_front(store, operation) ==
    writeQueue(<<operation>> \o readQueue(store))

enqueueOperation(store, operation) ==
    writeQueue(Append(readQueue(store), operation))

\* consumeQueue: the list it returns, and the store it leaves
consumeQueue_returned(store) == readQueue(store)

consumeQueue_store(store) == writeQueue(<<>>)

pushBackQueue(queue) == writeQueue(queue)

hasPendingOperations(store) == Len(readQueue(store)) > 0

(***************************************************************************)
(* Board controller: sign-in state, connectivity, loading                  *)
(***************************************************************************)
isAuthenticated == user # NoUser

\* the board of a signed-in user after its first load
BoardTree ==
    <<Node(1, "TODO", "a", NoId, <<Leaf(2, "TODO", "a", 1)>>),
      Leaf(3, "IN_PROGRESS", "a", NoId)>>

\* trees the server may answer a fetch with (already normalised)
ServerTrees ==
    { <<Node(1, "TODO", "a", NoId, <<Leaf(2, "TODO", "a", 1)>>)>>,
      <<Node(1, "DONE", "a", NoId, <<Leaf(2, "DONE", "a", 1)>>),
        Leaf(3, "TODO", "a", NoId)>> }

\* how a request can end: answered, network failure, refused, 401
Outcomes == {"ok", "offline", "rejected", "unauthorized"}

\* variant: a failed fetch leaves the tree alone
loadTodos_todos_keep(outcome, data) ==
    IF outcome = "ok" THEN data ELSE todos

\* loadTodos after its await: the three branches of try / catch
loadTodos_todos(outcome, data) ==
    IF outcome = "ok" THEN data
    ELSE IF outcome = "unauthorized" THEN todos
    ELSE IF cache.present THEN cache.value
    ELSE todos

loadTodos_cache(outcome, data) ==
    IF outcome = "ok" THEN Item(data) ELSE cache

loadTodos_error(outcome) ==
    IF outcome = "ok" THEN ""
    ELSE IF outcome = "unauthorized" THEN error
    ELSE IF cache.present THEN "Offline mode: showing cached todos."
    ELSE "Failed to load todos"

loadTodos_user(outcome) ==
    IF outcome = "unauthorized" THEN NoUser ELSE user

\* a 401 makes handleResponse clear the stored token before loadTodos calls
\* logout(), which clears it again
loadTodos_token(outcome) ==
    IF outcome = "unauthorized" THEN FALSE ELSE token

\* the live-update effect is cleaned up once isAuthenticated turns false
loadTodos_sse(outcome) ==
    IF outcome = "unauthorized" THEN teardown(sse) ELSE sse

\* variant: every rebuilt entry carries the tree the restore started from
RECURSIVE restoreStatusQueue_firstTree(_, _, _)
restoreStatusQueue_firstTree(stored, working, rebuilt) ==
    IF Len(stored) = 0 THEN [queue |-> rebuilt, working |-> working]
    ELSE restoreStatusQueue_firstTree(
            Tail(stored),
            applyStatusToList(working, stored[1].todoId, stored[1].status),
            Append(rebuilt, [todoId |-> stored[1].todoId,
                             status |-> stored[1].status,
                             snapshot |-> IF Len(rebuilt) = 0
                                          THEN cloneTodos(working)
                                          ELSE rebuilt[1].snapshot]))

\* stored.forEach of the restore effect: push the entry with a snapshot of the
\* working tree, then apply its status to the working tree
RECURSIVE restoreStatusQueue(_, _, _)
restoreStatusQueue(stored, working, rebuilt) ==
    IF Len(stored) = 0 THEN [queue |-> rebuilt, working |-> working]
    ELSE restoreStatusQueue(
            Tail(stored),
            applyStatusToList(working, stored[1].todoId, stored[1].status),
            Append(rebuilt, [todoId |-> stored[1].todoId,
                             status |-> stored[1].status,
                             snapshot |-> cloneTodos(working)]))

\* the restore effect passes its guards in the render that follows a load:
\* signed in, isLoading false, not yet run by this HomePage instance
restoreEffect_runs(outcome) ==
    ~page.hasRestored /\ loadTodos_user(outcome) # NoUser

\* the restore effect on the tree loadTodos has just set: the pending list and
\* the tree it leaves, and whether it called updateTodosState
restoreEffect(outcome, loaded) ==
    LET stored == IF statusStore.present THEN statusStore.value ELSE <<>> IN
    IF restoreEffect_runs(outcome) /\ Len(stored) > 0
    THEN LET r == restoreStatusQueue(stored, cloneTodos(loaded), <<>>)
         IN  [queue |-> r.queue, working |-> r.working, updated |-> TRUE]
    ELSE [queue |-> statusQueueRef, working |-> loaded, updated |-> FALSE]

\* navigator.onLine changes
GoOffline ==
    /\ online
    /\ online' = FALSE
    /\ ev' = Quiet
    /\ UNCHANGED <<todos, todosRef, cache, error, user, queueStore, flush,
                   statusQueueRef, statusStore, batches, deletes, hist>>
    /\ UNCHANGED <<page, pureVars, boardVars>>

GoOnline ==
    /\ ~online
    /\ online' = TRUE
    /\ ev' = Quiet
    /\ UNCHANGED <<todos, todosRef, cache, error, user, queueStore, flush,
                   statusQueueRef, statusStore, batches, deletes, hist>>
    /\ UNCHANGED <<page, pureVars, boardVars>>

\* a caller (handleCreateTodo, handleCreateSubTodo, handleUpdateStatus)
\* reaches its enqueueOperation call
EnqueueOperation ==
    \E op \in OpPool :
        /\ hist.nEnq < MaxEnqueues
        /\ queueStore' = enqueueOperation(queueStore, op)
        /\ hist' = [hist EXCEPT !.nEnq = @ + 1,
                                !.enqueued = Append(@, op)]
        /\ ev' = Quiet
        /\ UNCHANGED <<todos, todosRef, cache, error, user, online, flush,
                       statusQueueRef, statusStore, batches, deletes>>
        /\ UNCHANGED <<page, pureVars, boardVars>>

(***************************************************************************)
(* flushOfflineQueue: one action per stretch between awaits                *)
(***************************************************************************)
\* variant: the failed operation itself is not put back
remainingAfterFailure_dropFailed(operations, index) ==
    SubSeq(operations, index + 2, Len(operations))

\* remaining.push(operation, ...operations.slice(index + 1)), index from 0
remainingAfterFailure(operations, index) ==
    <<operations[index + 1]>> \o SubSeq(operations, index + 2, Len(operations))

\* entry up to the first await; with an empty queue it returns at once
flushOfflineQueue_entry ==
    LET operations == consumeQueue_returned(queueStore) IN
        /\ queueStore' = consumeQueue_store(queueStore)
        /\ flush' = IF Len(operations) = 0 THEN flush
                    ELSE Append(flush,
                                [pc |-> "replaying", operations |-> operations,
                                 index |-> 0, hasProcessed |-> FALSE,
                                 attempted |-> <<operations[1]>>])
        /\ hist' = [hist EXCEPT !.enqueued = <<>>, !.base = <<>>]
        /\ ev' = [name |-> "consumeQueue", returned |-> operations,
                  base |-> hist.base, enqueued |-> hist.enqueued]

\* called by the mount effect or by a later "online" event
FlushOfflineQueue ==
    /\ isAuthenticated
    /\ online
    /\ flushOfflineQueue_entry
    /\ UNCHANGED <<todos, todosRef, cache, error, user, online,
                   statusQueueRef, statusStore, batches, deletes>>
    /\ UNCHANGED <<page, pureVars, boardVars>>

\* what the server does with a replayed operation it accepts
ServerApply(operation, srv) ==
    IF operation.type = "createTodo"
    THEN LET item == Leaf(srv.nextId, "TODO", operation.title,
                          operation.parentId)
         IN  ServerOf(IF operation.parentId = NoId
                      THEN <<item>> \o srv.tree
                      ELSE addSubTodoToParent(srv.tree, operation.parentId,
                                              item),
                      srv.nextId + 1)
    ELSE ServerOf(applyStatusToList(srv.tree, operation.id, operation.status),
                  srv.nextId)

RemoveAt(s, i) == SubSeq(s, 1, i - 1) \o SubSeq(s, i + 1, Len(s))

\* the request of operations[index] succeeded: the next one is sent, or the
\* loop ends, the (empty) remainder is pushed back and loadTodos is awaited
FlushReplayOk ==
    \E f \in 1..Len(flush) :
        /\ flush[f].pc = "replaying"
        /\ LET operations == flush[f].operations
               index == flush[f].index + 1
           IN  IF index < Len(operations)
               THEN /\ flush' = [flush EXCEPT
                                    ![f].index = index,
                                    ![f].hasProcessed = TRUE,
                                    ![f].attempted =
                                        Append(@, operations[index + 1])]
                    /\ ev' = Quiet
                    /\ UNCHANGED <<queueStore, hist>>
               ELSE /\ queueStore' = pushBackQueue(<<>>)
                    /\ flush' = [flush EXCEPT ![f].index = index,
                                              ![f].hasProcessed = TRUE,
                                              ![f].pc = "loading"]
                    /\ hist' = [hist EXCEPT !.enqueued = <<>>, !.base = <<>>]
                    /\ ev' = [name |-> "replayDone",
                              operations |-> operations,
                              attempted |-> flush[f].attempted]
        /\ server' = ServerApply(flush[f].operations[flush[f].index + 1],
                                 server)
        /\ UNCHANGED <<todos, todosRef, cache, error, user, online,
                       statusQueueRef, statusStore, batches, deletes>>
        /\ UNCHANGED <<page, pureVars, token, sse, creates, loads, edits, now>>

\* the request of operations[index] threw: the rest is pushed back; loadTodos
\* is awaited only when an earlier operation went through
FlushReplayFail ==
    \E f \in 1..Len(flush), outcome \in Outcomes \ {"ok"} :
        /\ flush[f].pc = "replaying"
        /\ token' = IF outcome = "unauthorized" THEN FALSE ELSE token
        /\ LET remaining == remainingAfterFailure(flush[f].operations,
                                                  flush[f].index)
           IN  /\ queueStore' = pushBackQueue(remaining)
               /\ hist' = [hist EXCEPT !.enqueued = <<>>, !.base = remaining,
                                       !.nRefused = 1]
        /\ flush' = IF flush[f].hasProcessed
                    THEN [flush EXCEPT ![f].pc = "loading"]
                    ELSE RemoveAt(flush, f)
        /\ ev' = [name |-> "replayFailed",
                  operations |-> flush[f].operations,
                  index |-> flush[f].index,
                  attempted |-> flush[f].attempted,
                  outcome |-> outcome]
        /\ UNCHANGED <<todos, todosRef, cache, error, user, online,
                       statusQueueRef, statusStore, batches, deletes>>
        /\ UNCHANGED <<page, pureVars, sse, requestVars>>

\* await loadTodos() at the end of a flush that replayed something
FlushLoaded ==
    \E f \in 1..Len(flush) :
        /\ flush[f].pc = "loading"
        /\ \E outcome \in Outcomes \ {"offline"} :
            LET data == server.tree
                restored ==
                    restoreEffect(outcome, loadTodos_todos(outcome, data))
            IN
            /\ todos' = restored.working
            /\ todosRef' = cloneTodos(todos')
            /\ cache' = IF restored.updated THEN Item(restored.working)
                        ELSE loadTodos_cache(outcome, data)
            /\ statusQueueRef' = restored.queue
            /\ page' = [page EXCEPT
                            !.hasRestored = @ \/ restoreEffect_runs(outcome)]
            /\ error' = loadTodos_error(outcome)
            /\ user' = loadTodos_user(outcome)
            /\ token' = loadTodos_token(outcome)
            /\ sse' = loadTodos_sse(outcome)
            /\ ev' = [name |-> "loadTodos", outcome |-> outcome,
                      data |-> data]
            /\ hist' = [hist EXCEPT
                            !.nRefused = IF outcome = "ok" THEN @ ELSE 1]
        /\ flush' = RemoveAt(flush, f)
        /\ UNCHANGED <<online, queueStore, statusStore, batches, deletes>>
        /\ UNCHANGED <<pureVars, requestVars>>

\* the board has just mounted for a signed-in user
InitQueue ==
    /\ todos = <<>> /\ todosRef = <<>> /\ cache = NoItem /\ error = ""
    /\ user = 1 /\ online = TRUE
    /\ queueStore = NoItem
    /\ flush = <<>>
    /\ statusQueueRef = <<>> /\ statusStore = NoItem
    /\ batches = <<>> /\ deletes = <<>>
    /\ ev = [name |-> "init"]
    /\ hist = HistInit
    /\ token = TRUE /\ sse = SseConnected
    /\ creates = <<>> /\ loads = <<>> /\ edits = <<>>
    /\ server = ServerOf(BoardTree, 4)
    /\ now = 0
    /\ page = BoardPage(FALSE)
    /\ pTree = <<>> /\ pCall = NoCall /\ pOut = <<>> /\ pOut2 = <<>>

NextQueue ==
    \/ GoOffline
    \/ GoOnline
    \/ EnqueueOperation
    \/ FlushOfflineQueue
    \/ FlushReplayOk
    \/ FlushReplayFail
    \/ FlushLoaded

SpecQueue == InitQueue /\ [][NextQueue]_vars

(***************************************************************************)
(* Status update batcher                                                   *)
(***************************************************************************)
RECURSIVE NodesOf(_)
NodesOf(list) ==
    IF Len(list) = 0 THEN {}
    ELSE {list[1]} \cup NodesOf(list[1].subtodos) \cup NodesOf(Tail(list))

\* updateTodosState: the updater's result is also what persistTodos stores;
\* the sync effect copies it into todosRef after the render
UpdateTodosState(next) ==
    /\ todos' = next
    /\ todosRef' = cloneTodos(next)
    /\ cache' = Item(next)

\* persistStatusQueue: ids and statuses only, written even when empty
persistStatusQueue(queue) ==
    Item([i \in 1..Len(queue) |->
            [todoId |-> queue[i].todoId, status |-> queue[i].status]])

\* variant: the snapshot of the newest request replaces the stored one
enqueueStatusUpdate_newSnapshot(queue, todoId, status, snapshot) ==
    Append(SelectSeq(queue, LAMBDA item : item.todoId # todoId),
           [todoId |-> todoId, status |-> status, snapshot |-> snapshot])

enqueueStatusUpdate(queue, todoId, status, snapshot) ==
    LET existing == SelectSeq(queue, LAMBDA item : item.todoId = todoId)
        snapshotToStore ==
            IF Len(existing) > 0 THEN existing[1].snapshot ELSE snapshot
    IN  Append(SelectSeq(queue, LAMBDA item : item.todoId # todoId),
               [todoId |-> todoId, status |-> status,
                snapshot |-> snapshotToStore])

\* the body of the batch request
batchPayload(queue) ==
    [i \in 1..Len(queue) |->
        [id |-> queue[i].todoId, status |-> queue[i].status]]

\* ids.reduce((acc, id) => applyStatusToList(acc, id, "TODO"), prev)
RECURSIVE reduceApplyTodo(_, _)
reduceApplyTodo(ids, acc) ==
    IF Len(ids) = 0 THEN acc
    ELSE reduceApplyTodo(Tail(ids), applyStatusToList(acc, ids[1], "TODO"))

\* variant: placeholders are not told apart
handleUpdateStatus_refuses_never(todo) == FALSE

\* the check that refuses a status change for an unsynced item
handleUpdateStatus_refuses(todo) == todo.id < 0

\* drag to another column or sub-item checkbox; the card shows a node of the
\* rendered tree
HandleUpdateStatus ==
    \E todo \in NodesOf(todos), status \in Status :
        /\ isAuthenticated
        /\ hist.nEvents < MaxEvents
        /\ todo.status # status
        /\ IF handleUpdateStatus_refuses(todo)
           THEN /\ error' = "Please wait for this todo to sync before updating its status."
                /\ ev' = [name |-> "statusRefused", id |-> todo.id]
                /\ hist' = [hist EXCEPT !.nEvents = @ + 1]
                /\ UNCHANGED <<todos, todosRef, cache, queueStore,
                               statusQueueRef, statusStore>>
           ELSE LET snapshot == cloneTodos(todosRef)
                    queue == enqueueStatusUpdate(statusQueueRef, todo.id,
                                                 status, snapshot)
                IN  /\ UpdateTodosState(applyStatusToList(todos, todo.id, status))
                    /\ statusQueueRef' = queue
                    /\ statusStore' = persistStatusQueue(queue)
                    /\ IF ~online
                       THEN /\ queueStore' =
                                enqueueOperation(queueStore,
                                                 StatusOp(todo.id, status))
                            /\ error' = "Offline mode: status change queued for sync."
                       ELSE /\ error' = ""
                            /\ UNCHANGED queueStore
                    /\ hist' = [hist EXCEPT
                            !.nEvents = @ + 1,
                            !.pending = @ \cup {todo.id},
                            !.unsent = @ \cup {todo.id},
                            !.coalesced =
                                IF todo.id \in hist.pending
                                THEN @ \cup {todo.id} ELSE @,
                            !.lastStatus[todo.id] = status,
                            !.firstTree[todo.id] =
                                IF todo.id \in hist.pending THEN @ ELSE todos,
                            !.enqueued =
                                IF online THEN @
                                ELSE Append(@, StatusOp(todo.id, status))]
                    /\ ev' = Quiet
        /\ UNCHANGED <<user, online, flush, batches, deletes>>
        /\ UNCHANGED <<page, pureVars, boardVars>>

\* flushPendingStatusQueue up to its await. keepalive = FALSE: the two
\* "online" listeners; keepalive = TRUE: beforeunload, pagehide, hidden tab.
FlushPendingStatusQueue ==
    \E keepalive \in BOOLEAN :
        /\ isAuthenticated
        /\ keepalive \/ online
        /\ Len(statusQueueRef) > 0
        /\ hist.nEvents < MaxEvents
        /\ batches' = Append(batches,
                             [payload |-> batchPayload(statusQueueRef),
                              keepalive |-> keepalive])
        /\ ev' = [name |-> "flushPendingStatusQueue", keepalive |-> keepalive]
        /\ hist' = [hist EXCEPT !.nEvents = @ + 1, !.unsent = {}]
        /\ UNCHANGED <<todos, todosRef, cache, error, user, online, queueStore,
                       flush, statusQueueRef, statusStore, deletes>>
        /\ UNCHANGED <<page, pureVars, boardVars>>


\* updateTodoStatusesBatch resolved (on the primary endpoint, or on the
\* legacy path after a 404 of the primary)
BatchSucceeded ==
    \E i \in 1..Len(batches) :
        LET ids == [j \in 1..Len(batches[i].payload) |-> batches[i].payload[j].id]
        IN  /\ statusQueueRef' = <<>>
            /\ statusStore' = persistStatusQueue(<<>>)
            /\ UpdateTodosState(reduceApplyTodo(ids, todos))
            /\ error' = IF batches[i].keepalive THEN error ELSE ""
            /\ hist' = [hist EXCEPT !.pending = {}, !.coalesced = {},
                                    !.unsent = {}]
            /\ batches' = RemoveAt(batches, i)
            /\ ev' = [name |-> "batchSucceeded", keepalive |-> batches[i].keepalive]
            /\ UNCHANGED <<user, online, queueStore, flush, deletes>>
            /\ UNCHANGED <<page, pureVars, boardVars>>

\* variant: an ordinary failure restores the oldest snapshot and empties the list
BatchFailed_rollback ==
    \E i \in 1..Len(batches) :
        /\ ~batches[i].keepalive
        /\ Len(statusQueueRef) > 0
        /\ UpdateTodosState(statusQueueRef[1].snapshot)
        /\ statusQueueRef' = <<>>
        /\ statusStore' = persistStatusQueue(<<>>)
        /\ error' = "Failed to sync pending status updates"
        /\ hist' = [hist EXCEPT !.pending = {}, !.coalesced = {},
                                    !.unsent = {}]
        /\ batches' = RemoveAt(batches, i)
        /\ ev' = [name |-> "batchFailed", keepalive |-> FALSE]
        /\ UNCHANGED <<user, online, queueStore, flush, deletes>>
        /\ UNCHANGED <<page, pureVars, boardVars>>

\* the batch request threw with something other than 401 (network failure,
\* refusal); with keepalive the catch does nothing but return false
BatchFailed ==
    \E i \in 1..Len(batches) :
        /\ error' = IF batches[i].keepalive THEN error
                    ELSE "Failed to sync pending status updates"
        /\ batches' = RemoveAt(batches, i)
        /\ ev' = [name |-> "batchFailed", keepalive |-> batches[i].keepalive]
        /\ UNCHANGED <<todos, todosRef, cache, user, online, queueStore, flush,
                       statusQueueRef, statusStore, deletes, hist>>
        /\ UNCHANGED <<page, pureVars, boardVars>>

\* the batch request was answered 401: the list is dropped and the session ends
BatchUnauthorized ==
    \E i \in 1..Len(batches) :
        /\ IF batches[i].keepalive
           THEN UNCHANGED <<statusQueueRef, statusStore, user, hist, sse>>
           ELSE /\ statusQueueRef' = <<>>
                /\ statusStore' = persistStatusQueue(<<>>)
                /\ user' = NoUser
                /\ sse' = teardown(sse)
                /\ hist' = [hist EXCEPT !.pending = {}, !.coalesced = {},
                                    !.unsent = {}]
        /\ token' = FALSE
        /\ batches' = RemoveAt(batches, i)
        /\ ev' = [name |-> "batchUnauthorized",
                  outcome |-> "unauthorized",
                  keepalive |-> batches[i].keepalive,
                  payload |-> batches[i].payload]
        /\ UNCHANGED <<todos, todosRef, cache, error, online, queueStore, flush,
                       deletes>>
        /\ UNCHANGED <<page, pureVars, requestVars>>

\* handleDeleteTodo / handleDeleteSubTodo up to the await
DeleteStart(target, handler) ==
    /\ isAuthenticated
    /\ hist.nEvents < MaxEvents
    /\ LET queue == SelectSeq(statusQueueRef,
                              LAMBDA item : item.todoId # target.id)
       IN  /\ statusQueueRef' = queue
           /\ statusStore' = persistStatusQueue(queue)
    /\ UpdateTodosState(removeTodoFromTree(todos, target.id))
    /\ deletes' = Append(deletes, [id |-> target.id,
                                   snapshot |-> cloneTodos(todosRef),
                                   target |-> target,
                                   treeAtStart |-> todos])
    /\ hist' = [hist EXCEPT !.pending = @ \ {target.id},
                        !.unsent = @ \ {target.id},
                        !.coalesced = @ \ {target.id}, !.nEvents = @ + 1]
    /\ ev' = [name |-> "deleteStart", target |-> target]
    /\ UNCHANGED <<error, user, online, queueStore, flush, batches>>
    /\ UNCHANGED <<page, pureVars, boardVars>>

HandleDeleteTodo ==
    \E i \in 1..Len(todos) : DeleteStart(todos[i], "handleDeleteTodo")

HandleDeleteSubTodo ==
    \E i \in 1..Len(todos) :
        \E j \in 1..Len(todos[i].subtodos) :
            DeleteStart(todos[i].subtodos[j], "handleDeleteSubTodo")

\* deleteTodo resolved
DeleteSucceeded ==
    \E i \in 1..Len(deletes) :
        /\ error' = ""
        /\ server' = [server EXCEPT
                        !.tree = removeTodoFromTree(@, deletes[i].id)]
        /\ deletes' = RemoveAt(deletes, i)
        /\ hist' = [hist EXCEPT !.nConfirmed = @ + 1]
        /\ ev' = Quiet
        /\ UNCHANGED <<todos, todosRef, cache, user, online, queueStore, flush,
                       statusQueueRef, statusStore, batches>>
        /\ UNCHANGED <<page, pureVars, token, sse, creates, loads, edits, now>>

\* variant: the catch only reports the error
DeleteFailed_noRollback ==
    \E i \in 1..Len(deletes), outcome \in Outcomes \ {"ok"} :
        /\ error' = "Failed to delete todo"
        /\ token' = IF outcome = "unauthorized" THEN FALSE ELSE token
        /\ deletes' = RemoveAt(deletes, i)
        /\ ev' = [name |-> "deleteFailed", request |-> deletes[i],
                  outcome |-> outcome]
        /\ UNCHANGED <<todos, todosRef, cache, user, online, queueStore, flush,
                       statusQueueRef, statusStore, batches, hist>>
        /\ UNCHANGED <<page, pureVars, sse, requestVars>>

\* deleteTodo threw: the tree goes back to the snapshot
DeleteFailed ==
    \E i \in 1..Len(deletes), outcome \in Outcomes \ {"ok"} :
        /\ UpdateTodosState(deletes[i].snapshot)
        /\ error' = "Failed to delete todo"
        /\ token' = IF outcome = "unauthorized" THEN FALSE ELSE token
        /\ deletes' = RemoveAt(deletes, i)
        /\ ev' = [name |-> "deleteFailed", request |-> deletes[i],
                  outcome |-> outcome]
        /\ UNCHANGED <<user, online, queueStore, flush, statusQueueRef,
                       statusStore, batches, hist>>
        /\ UNCHANGED <<page, pureVars, sse, requestVars>>

InitBatcher ==
    /\ todos = BoardTree /\ todosRef = BoardTree /\ cache = Item(BoardTree)
    /\ error = ""
    /\ user = 1 /\ online = TRUE
    /\ queueStore = NoItem
    /\ flush = <<>>
    /\ statusQueueRef = <<>> /\ statusStore = NoItem
    /\ batches = <<>> /\ deletes = <<>>
    /\ ev = [name |-> "init"]
    /\ hist = HistInit
    /\ token = TRUE /\ sse = SseConnected
    /\ creates = <<>> /\ loads = <<>> /\ edits = <<>>
    /\ server = ServerOf(<<>>, 1) /\ now = 0
    /\ page = BoardPage(TRUE)
    /\ pTree = <<>> /\ pCall = NoCall /\ pOut = <<>> /\ pOut2 = <<>>

NextBatcher ==
    \/ GoOffline
    \/ GoOnline
    \/ HandleUpdateStatus
    \/ FlushPendingStatusQueue
    \/ BatchSucceeded
    \/ BatchFailed
    \/ BatchUnauthorized
    \/ HandleDeleteTodo
    \/ HandleDeleteSubTodo
    \/ DeleteSucceeded
    \/ DeleteFailed

SpecBatcher == InitBatcher /\ [][NextBatcher]_vars

(***************************************************************************)
(* Live update consumer: source.onmessage                                  *)
(***************************************************************************)
\* an element of payload.todos as it arrives: null, or an object whose title,
\* status and subtodos may be absent
RawNull ==
    [isNull |-> TRUE, id |-> NoId, title |-> Missing, status |-> Missing,
     parentId |-> NoId, hasSubtodos |-> FALSE, subtodos |-> <<>>]

Raw(id, title, status, parentId, hasSubtodos, subtodos) ==
    [isNull |-> FALSE, id |-> id, title |-> title, status |-> status,
     parentId |-> parentId, hasSubtodos |-> hasSubtodos,
     subtodos |-> subtodos]

RECURSIVE normalizeTodo(_)
normalizeTodo(input) ==
    [id |-> input.id,
     title |-> IF input.title = Missing THEN "Untitled" ELSE input.title,
     status |-> IF input.status = Missing THEN "TODO" ELSE input.status,
     parentId |-> input.parentId,
     subtodos |-> IF input.hasSubtodos
                  THEN [i \in 1..Len(input.subtodos) |->
                            normalizeTodo(input.subtodos[i])]
                  ELSE <<>>]

\* variant: the list is walked from its end
RECURSIVE upsertAll_reversed(_, _)
upsertAll_reversed(normalized, next) ==
    IF Len(normalized) = 0 THEN next
    ELSE upsertAll_reversed(
            SubSeq(normalized, 1, Len(normalized) - 1),
            upsertTodoInTree(next, normalized[Len(normalized)]))

\* for (const todo of normalized) next = upsertTodoInTree(next, todo)
RECURSIVE upsertAll(_, _)
upsertAll(normalized, next) ==
    IF Len(normalized) = 0 THEN next
    ELSE upsertAll(Tail(normalized), upsertTodoInTree(next, normalized[1]))

\* for (const id of payload.removedIds) next = removeTodoFromTree(next, id)
RECURSIVE removeAll(_, _)
removeAll(removedIds, next) ==
    IF Len(removedIds) = 0 THEN next
    ELSE removeAll(Tail(removedIds), removeTodoFromTree(next, removedIds[1]))

UpsertTypes == {"create", "update", "status_single", "status_batch"}

NoUpdate == [update |-> FALSE, next |-> <<>>]

\* variant: the addressee is not compared with the signed-in user
onmessage_anyUser(msg, prev, userId) ==
    IF msg.data # "object" THEN NoUpdate
    ELSE IF msg.type \in UpsertTypes
    THEN IF ~msg.hasTodos THEN NoUpdate
         ELSE IF \E i \in 1..Len(msg.todos) : msg.todos[i].isNull
         THEN NoUpdate
         ELSE [update |-> TRUE,
               next |-> upsertAll([i \in 1..Len(msg.todos) |->
                                        normalizeTodo(msg.todos[i])],
                                  cloneTodos(prev))]
    ELSE IF msg.type = "delete"
    THEN IF ~msg.hasRemovedIds THEN NoUpdate
         ELSE [update |-> TRUE,
               next |-> removeAll(msg.removedIds, cloneTodos(prev))]
    ELSE NoUpdate

\* what the handler hands to updateTodosState, if anything. msg.data: "empty"
\* (no event.data), "garbage" (JSON.parse throws), "null" (falsy payload) or
\* "object"; a null element makes normalizeTodo throw inside the try
onmessage(msg, prev, userId) ==
    IF msg.data # "object" THEN NoUpdate
    ELSE IF msg.userId # userId THEN NoUpdate
    ELSE IF msg.type \in UpsertTypes
    THEN IF ~msg.hasTodos THEN NoUpdate
         ELSE IF \E i \in 1..Len(msg.todos) : msg.todos[i].isNull
         THEN NoUpdate
         ELSE [update |-> TRUE,
               next |-> upsertAll([i \in 1..Len(msg.todos) |->
                                        normalizeTodo(msg.todos[i])],
                                  cloneTodos(prev))]
    ELSE IF msg.type = "delete"
    THEN IF ~msg.hasRemovedIds THEN NoUpdate
         ELSE [update |-> TRUE,
               next |-> removeAll(msg.removedIds, cloneTodos(prev))]
    ELSE NoUpdate

\* pushed messages
RawA == Raw(2, "b", "DONE", 1, FALSE, <<>>)

RawB == Raw(1, Missing, Missing, NoId, TRUE, <<Raw(2, "c", "IN_PROGRESS", 1, FALSE, <<>>)>>)

Msg(data, type, userId, hasTodos, rawTodos, hasRemovedIds, removedIds) ==
    [data |-> data, type |-> type, userId |-> userId,
     hasTodos |-> hasTodos, todos |-> rawTodos,
     hasRemovedIds |-> hasRemovedIds, removedIds |-> removedIds]

TodoLists ==
    {<<>>, <<RawA>>, <<RawB>>, <<RawA, RawB>>, <<RawB, RawA>>,
     <<RawNull>>, <<RawA, RawNull>>}

IdLists == {<<>>, <<2>>, <<3, 1>>, <<2, 3>>}

Messages ==
    {Msg(d, "create", NoUser, FALSE, <<>>, FALSE, <<>>) : d \in {"empty", "garbage", "null"}}
    \cup {Msg("object", t, u, TRUE, l, FALSE, <<>>) :
            t \in UpsertTypes, u \in Users \cup {NoUser}, l \in TodoLists}
    \cup {Msg("object", "delete", u, FALSE, <<>>, TRUE, l) :
            u \in Users \cup {NoUser}, l \in IdLists}
    \cup {Msg("object", t, u, FALSE, <<>>, FALSE, <<>>) :
            t \in {"create", "delete"}, u \in Users}
    \cup {Msg("object", t, u, TRUE, <<RawA>>, TRUE, <<3>>) :
            t \in {"ping", Missing}, u \in Users}

Deliver(msg) ==
        /\ isAuthenticated
        /\ LiveOpen
        /\ hist.nMsg < MaxMessages
        /\ LET result == onmessage(msg, todos, user) IN
            IF result.update
            THEN UpdateTodosState(result.next)
            ELSE UNCHANGED <<todos, todosRef, cache>>
        /\ hist' = [hist EXCEPT !.nMsg = @ + 1]
        /\ ev' = [name |-> "onmessage", msg |-> msg]
        /\ UNCHANGED <<error, user, online, queueStore, flush, statusQueueRef,
                       statusStore, batches, deletes>>
        /\ UNCHANGED <<page, pureVars, boardVars>>

OnMessage == \E msg \in Messages : Deliver(msg)

InitPush ==
    /\ todos = BoardTree /\ todosRef = BoardTree /\ cache = Item(BoardTree)
    /\ error \in {"", "Failed to delete todo"}
    /\ user \in Users /\ online = TRUE
    /\ queueStore = NoItem
    /\ flush = <<>>
    /\ statusQueueRef = <<>> /\ statusStore = NoItem
    /\ batches = <<>> /\ deletes = <<>>
    /\ ev = [name |-> "init"]
    /\ hist = HistInit
    /\ token = TRUE /\ sse = SseConnected
    /\ creates = <<>> /\ loads = <<>> /\ edits = <<>>
    /\ server = ServerOf(<<>>, 1) /\ now = 0
    /\ page = BoardPage(TRUE)
    /\ pTree = <<>> /\ pCall = NoCall /\ pOut = <<>> /\ pOut2 = <<>>

NextPush == OnMessage

SpecPush == InitPush /\ [][NextPush]_vars

(***************************************************************************)
(* Creating items: handleCreateTodo, handleCreateSubTodo, and the reload   *)
(* a successful create starts                                              *)
(***************************************************************************)
\* isOfflineError, evaluated when the request has failed
isOfflineError(outcome) == ~online \/ outcome = "offline"

\* a create handler suspended at await createTodo(formData); created is the
\* item the server made once it has processed the request (pc = "done")
CreateRequest(handler, tempId, title, parentId, image) ==
    [handler |-> handler, tempId |-> tempId, title |-> title,
     parentId |-> parentId, image |-> image, pc |-> "sent",
     created |-> Leaf(NoId, "TODO", title, parentId)]

\* submit of the root form; Date.now() has advanced since the last submission
HandleCreateTodo ==
    \E image \in BOOLEAN :
        LET tempId == (now + 1) * (-1)
            optimisticTodo == Leaf(tempId, "TODO", "b", NoId)
        IN  /\ isAuthenticated
            /\ hist.nEvents + hist.nMsg < MaxSubmits
            /\ now' = now + 1
            /\ UpdateTodosState(<<optimisticTodo>> \o todos)
            /\ creates' = Append(creates,
                    CreateRequest("handleCreateTodo", tempId, "b", NoId, image))
            /\ hist' = [hist EXCEPT !.nEvents = @ + 1]
            /\ ev' = [name |-> "handleCreateTodo", tempId |-> tempId]
            /\ UNCHANGED <<error, user, online, queueStore, flush,
                           statusQueueRef, statusStore, batches, deletes>>
            /\ UNCHANGED <<page, pureVars, token, sse, loads, edits, server>>

\* the sub-item form of the details modal, which opens for any root card,
\* placeholders included
HandleCreateSubTodo ==
    \E p \in 1..Len(todos) :
        LET parent == todos[p]
            tempId == (now + 1) * (-1)
            optimisticSubTodo == Leaf(tempId, "TODO", "b", parent.id)
        IN  /\ isAuthenticated
            /\ hist.nEvents + hist.nMsg < MaxSubmits
            /\ now' = now + 1
            /\ UpdateTodosState(
                    addSubTodoToParent(todos, parent.id, optimisticSubTodo))
            /\ creates' = Append(creates,
                    CreateRequest("handleCreateSubTodo", tempId, "b",
                                  parent.id, FALSE))
            /\ hist' = [hist EXCEPT !.nEvents = @ + 1]
            /\ ev' = [name |-> "handleCreateSubTodo", tempId |-> tempId]
            /\ UNCHANGED <<error, user, online, queueStore, flush,
                           statusQueueRef, statusStore, batches, deletes>>
            /\ UNCHANGED <<page, pureVars, token, sse, loads, edits, server>>

\* the server processes a create request: it assigns the next id
ServerCreate ==
    \E i \in 1..Len(creates) :
        LET request == creates[i]
            item == Leaf(server.nextId, "TODO", request.title, request.parentId)
        IN  /\ request.pc = "sent"
            /\ request.parentId = NoId \/ HasId(server.tree, request.parentId)
            /\ server' = ServerOf(
                    IF request.parentId = NoId
                    THEN <<item>> \o server.tree
                    ELSE addSubTodoToParent(server.tree, request.parentId, item),
                    server.nextId + 1)
            /\ creates' = [creates EXCEPT ![i].pc = "done",
                                          ![i].created = item]
            /\ ev' = Quiet
            /\ UNCHANGED <<todos, todosRef, cache, error, user, online,
                           queueStore, flush, statusQueueRef, statusStore,
                           batches, deletes, hist>>
            /\ UNCHANGED <<page, pureVars, token, sse, loads, edits, now>>

\* the tree a create handler installs when createTodo resolved
createSucceeded_todos(request, prev) ==
    LET normalized == request.created
        trimmed == removeTodoFromTree(prev, request.tempId)
    IN  IF request.handler = "handleCreateSubTodo"
           /\ normalized.parentId # NoId
        THEN addSubTodoToParent(trimmed, normalized.parentId, normalized)
        ELSE <<normalized>> \o trimmed

\* loadTodos up to its await: nothing is sent once signed out
loadTodos_start == IF isAuthenticated THEN Append(loads, [pc |-> "sent"]) ELSE loads

\* createTodo resolved: the placeholder goes, the created item comes, and a
\* reload is started without being awaited
CreateSucceeded ==
    \E i \in 1..Len(creates) :
        /\ creates[i].pc = "done"
        /\ UpdateTodosState(createSucceeded_todos(creates[i], todos))
        /\ loads' = loadTodos_start
        /\ creates' = RemoveAt(creates, i)
        /\ hist' = [hist EXCEPT !.confirmedTemps = @ \cup {creates[i].tempId}]
        /\ ev' = [name |-> "createSucceeded", request |-> creates[i]]
        /\ UNCHANGED <<error, user, online, queueStore, flush, statusQueueRef,
                       statusStore, batches, deletes>>
        /\ UNCHANGED <<page, pureVars, token, sse, edits, server, now>>

\* the catch branch that removes the placeholder
createFailed_removes(request, outcome) ==
    IF isOfflineError(outcome)
    THEN request.handler = "handleCreateTodo" /\ request.image
    ELSE TRUE

\* variant: every failure is queued
createFailed_enqueues_always(request, outcome) == TRUE

\* the catch branch that queues the create for a later replay
createFailed_enqueues(request, outcome) ==
    /\ isOfflineError(outcome)
    /\ ~(request.handler = "handleCreateTodo" /\ request.image)

createFailed_error(request, outcome) ==
    IF request.handler = "handleCreateTodo"
    THEN IF createFailed_enqueues(request, outcome)
         THEN "Offline mode: todo will sync when you're back online."
         ELSE error
    ELSE IF isOfflineError(outcome)
         THEN "Offline mode: subtodo will sync when you're back online."
         ELSE "Failed to create subtodo"

\* createTodo threw: network failure, refusal or 401
CreateFailed ==
    \E i \in 1..Len(creates), outcome \in Outcomes \ {"ok"} :
        LET request == creates[i]
            operation == CreateOp(request.title, request.parentId)
        IN  /\ request.pc = "sent"
            /\ token' = IF outcome = "unauthorized" THEN FALSE ELSE token
            /\ IF createFailed_removes(request, outcome)
               THEN UpdateTodosState(removeTodoFromTree(todos, request.tempId))
               ELSE UNCHANGED <<todos, todosRef, cache>>
            /\ IF createFailed_enqueues(request, outcome)
               THEN /\ queueStore' = enqueueOperation(queueStore, operation)
                    /\ hist' = [hist EXCEPT
                                    !.enqueued = Append(@, operation),
                                    !.queuedTemps = @ \cup {request.tempId}]
               ELSE UNCHANGED <<queueStore, hist>>
            /\ error' = createFailed_error(request, outcome)
            /\ creates' = RemoveAt(creates, i)
            /\ ev' = [name |-> "createFailed", request |-> request,
                      outcome |-> outcome,
                      offline |-> isOfflineError(outcome)]
            /\ UNCHANGED <<user, online, flush, statusQueueRef, statusStore,
                           batches, deletes>>
            /\ UNCHANGED <<page, pureVars, sse, loads, edits, server, now>>

\* fetchTodos of a loadTodos invocation resolved or threw; the server answers
\* with the items it holds
LoadDone ==
    \E j \in 1..Len(loads), outcome \in Outcomes :
        LET data == server.tree
            restored == restoreEffect(outcome, loadTodos_todos(outcome, data))
        IN
        /\ todos' = restored.working
        /\ todosRef' = cloneTodos(todos')
        /\ cache' = IF restored.updated THEN Item(restored.working)
                    ELSE loadTodos_cache(outcome, data)
        /\ statusQueueRef' = restored.queue
        /\ page' = [page EXCEPT !.hasRestored = @ \/ restoreEffect_runs(outcome)]
        /\ error' = loadTodos_error(outcome)
        /\ user' = loadTodos_user(outcome)
        /\ token' = loadTodos_token(outcome)
        /\ sse' = loadTodos_sse(outcome)
        /\ loads' = RemoveAt(loads, j)
        /\ ev' = [name |-> "loadTodos", outcome |-> outcome, data |-> data]
        /\ UNCHANGED <<online, queueStore, flush, statusStore,
                       batches, deletes, hist>>
        /\ UNCHANGED <<pureVars, creates, edits, server, now>>

\* messages pushed to the board of user 1
BoardMessages ==
    {Msg("object", "update", 1, TRUE, <<RawA>>, FALSE, <<>>),
     Msg("object", "delete", 1, FALSE, <<>>, TRUE, <<3, 1>>)}

OnBoardMessage ==
    \E msg \in BoardMessages :
        /\ hist.nEvents + hist.nMsg < MaxSubmits
        /\ Deliver(msg)

\* the board of user 1 after its first load
InitCreate ==
    /\ todos = BoardTree /\ todosRef = BoardTree /\ cache = Item(BoardTree)
    /\ error = ""
    /\ user = 1 /\ online \in BOOLEAN
    /\ queueStore = NoItem
    /\ flush = <<>>
    /\ statusQueueRef = <<>> /\ statusStore = NoItem
    /\ batches = <<>> /\ deletes = <<>>
    /\ ev = [name |-> "init"]
    /\ hist = HistInit
    /\ token = TRUE /\ sse = SseConnected
    /\ creates = <<>> /\ loads = <<>> /\ edits = <<>>
    /\ server = ServerOf(BoardTree, 4) /\ now = 0
    /\ page = BoardPage(TRUE)
    /\ pTree = <<>> /\ pCall = NoCall /\ pOut = <<>> /\ pOut2 = <<>>

NextCreate ==
    \/ HandleCreateTodo
    \/ HandleCreateSubTodo
    \/ ServerCreate
    \/ CreateSucceeded
    \/ CreateFailed
    \/ LoadDone
    \/ OnBoardMessage

SpecCreate == InitCreate /\ [][NextCreate]_vars

\* the board of user 1 has just mounted: the tree is empty, the local cache is
\* what an earlier session stored, the mount effect's loadTodos is in flight
InitMount ==
    /\ todos = <<>> /\ todosRef = <<>> /\ error = ""
    /\ cache \in {NoItem, Item(BoardTree)}
    /\ user = 1 /\ online = TRUE
    /\ queueStore = NoItem
    /\ flush = <<>>
    /\ statusQueueRef = <<>> /\ statusStore = NoItem
    /\ batches = <<>> /\ deletes = <<>>
    /\ ev = [name |-> "init"]
    /\ hist = HistInit
    /\ token = TRUE /\ sse = SseConnected
    /\ creates = <<>> /\ edits = <<>>
    /\ loads = <<[pc |-> "sent"]>>
    /\ \E tree \in ServerTrees : server = ServerOf(tree, 4)
    /\ now = 0
    /\ page = BoardPage(FALSE)
    /\ pTree = <<>> /\ pCall = NoCall /\ pOut = <<>> /\ pOut2 = <<>>

SpecMount == InitMount /\ [][NextCreate]_vars

(***************************************************************************)
(* Status changes on a board with creates and reloads                      *)
(***************************************************************************)
\* a card is moved, within the budget of submissions
BoardUpdateStatus ==
    /\ hist.nEvents + hist.nMsg < MaxSubmits
    /\ HandleUpdateStatus

NextStatus ==
    \/ HandleCreateTodo
    \/ ServerCreate
    \/ CreateSucceeded
    \/ CreateFailed
    \/ LoadDone
    \/ BoardUpdateStatus

SpecStatus == InitCreate /\ [][NextStatus]_vars

(***************************************************************************)
(* Editing title and description: handleUpdateDetails; deleting and        *)
(* editing next to pushed messages                                         *)
(***************************************************************************)
\* the first node with that id, in preorder (the caller checks HasId)
RECURSIVE NodeById(_, _)
NodeById(list, id) ==
    IF list[1].id = id THEN list[1]
    ELSE IF HasId(list[1].subtodos, id) THEN NodeById(list[1].subtodos, id)
    ELSE NodeById(Tail(list), id)

\* the detail form of a confirmed item, up to await updateTodo
HandleUpdateDetails ==
    \E target \in NodesOf(todos) :
        LET values == [title |-> "c"] IN
        /\ isAuthenticated
        /\ hist.nEvents + hist.nMsg < MaxSubmits
        /\ target.id > 0
        /\ edits' = Append(edits, [id |-> target.id,
                                   snapshot |-> cloneTodos(todosRef),
                                   values |-> values])
        /\ UpdateTodosState(applyMetaToList(todos, target.id, values))
        /\ hist' = [hist EXCEPT !.nEvents = @ + 1]
        /\ ev' = [name |-> "handleUpdateDetails", id |-> target.id]
        /\ UNCHANGED <<error, user, online, queueStore, flush, statusQueueRef,
                       statusStore, batches, deletes>>
        /\ UNCHANGED <<page, pureVars, token, sse, creates, loads, server, now>>

\* updateTodo resolved: the server answers with the item as it now holds it
UpdateSucceeded ==
    \E i \in 1..Len(edits) :
        LET tree == applyMetaToList(server.tree, edits[i].id, edits[i].values)
        IN  /\ HasId(server.tree, edits[i].id)
            /\ server' = [server EXCEPT !.tree = tree]
            /\ UpdateTodosState(
                    upsertTodoInTree(todos, NodeById(tree, edits[i].id)))
            /\ error' = ""
            /\ edits' = RemoveAt(edits, i)
            /\ hist' = [hist EXCEPT !.nConfirmed = @ + 1]
            /\ ev' = [name |-> "updateSucceeded", request |-> edits[i]]
            /\ UNCHANGED <<user, online, queueStore, flush, statusQueueRef,
                           statusStore, batches, deletes>>
            /\ UNCHANGED <<page, pureVars, token, sse, creates, loads, now>>

\* updateTodo threw: the error is shown and the tree goes back to the snapshot
UpdateFailed ==
    \E i \in 1..Len(edits), outcome \in Outcomes \ {"ok"} :
        /\ error' = "Failed to update todo"
        /\ UpdateTodosState(edits[i].snapshot)
        /\ token' = IF outcome = "unauthorized" THEN FALSE ELSE token
        /\ edits' = RemoveAt(edits, i)
        /\ ev' = [name |-> "updateFailed", request |-> edits[i],
                  outcome |-> outcome]
        /\ UNCHANGED <<user, online, queueStore, flush, statusQueueRef,
                       statusStore, batches, deletes, hist>>
        /\ UNCHANGED <<page, pureVars, sse, creates, loads, server, now>>

InitEdit ==
    /\ InitCreate
    /\ online

\* the delete buttons, within the budget of this specification
EditDeleteTodo == hist.nEvents + hist.nMsg < MaxSubmits /\ HandleDeleteTodo

EditDeleteSubTodo == hist.nEvents + hist.nMsg < MaxSubmits /\ HandleDeleteSubTodo

NextEdit ==
    \/ EditDeleteTodo
    \/ EditDeleteSubTodo
    \/ DeleteSucceeded
    \/ DeleteFailed
    \/ HandleUpdateDetails
    \/ UpdateSucceeded
    \/ UpdateFailed
    \/ OnBoardMessage

SpecEdit == InitEdit /\ [][NextEdit]_vars

(***************************************************************************)
(* Offline create, reconnect and replay                                    *)
(***************************************************************************)
\* navigator.onLine turns true and the window fires "online": the listener of
\* the flush effect calls flushOfflineQueue, the two listeners of the batcher
\* call flushPendingStatusQueue() each
OnlineEvent ==
    /\ ~online
    /\ online' = TRUE
    /\ IF isAuthenticated
       THEN /\ flushOfflineQueue_entry
            /\ batches' =
                    IF Len(statusQueueRef) = 0 THEN batches
                    ELSE batches \o
                         <<[payload |-> batchPayload(statusQueueRef),
                            keepalive |-> FALSE],
                           [payload |-> batchPayload(statusQueueRef),
                            keepalive |-> FALSE]>>
       ELSE /\ ev' = Quiet
            /\ UNCHANGED <<queueStore, flush, hist, batches>>
    /\ UNCHANGED <<todos, todosRef, cache, error, user, statusQueueRef,
                   statusStore, deletes>>
    /\ UNCHANGED <<page, pureVars, boardVars>>

\* the root form, within the budget of this specification
DrainCreateTodo == hist.nEvents < MaxDrains /\ HandleCreateTodo

NextDrain ==
    \/ DrainCreateTodo
    \/ CreateFailed
    \/ GoOffline
    \/ OnlineEvent
    \/ FlushReplayOk
    \/ FlushReplayFail
    \/ FlushLoaded

\* every request of a running flush is answered
SpecDrain ==
    /\ InitEdit
    /\ [][NextDrain]_vars
    /\ WF_vars(FlushReplayOk \/ FlushReplayFail)
    /\ WF_vars(FlushLoaded)
    /\ WF_vars(CreateFailed)

(***************************************************************************)
(* Status changes made offline, then a reconnect                           *)
(***************************************************************************)
NextReconnect ==
       BoardUpdateStatus
    \/ OnlineEvent
    \/ FlushReplayOk
    \/ FlushReplayFail
    \/ FlushLoaded
    \/ BatchSucceeded
    \/ BatchFailed

\* the board of user 1, online or in an offline period that ends once
SpecReconnect == InitCreate /\ [][NextReconnect]_vars

(***************************************************************************)
(* Live update consumer: connection, retry and teardown                    *)
(***************************************************************************)
\* an error event reaches the handler of one of the EventSources, still open
\* or already closed by connect() or by the cleanup
OnError ==
    \E s \in 1..Len(sse.sources) :
        /\ hist.nErr < MaxErrors
        /\ sse' = onerror(sse, s)
        /\ hist' = [hist EXCEPT !.nErr = @ + 1]
        /\ ev' = [name |-> "onerror", source |-> s]
        /\ UNCHANGED <<todos, todosRef, cache, error, user, online, queueStore,
                       flush, statusQueueRef, statusStore, batches, deletes>>
        /\ UNCHANGED <<page, pureVars, token, requestVars>>

\* a retry timer fires: setTimeout(connect, 3000)
TimerFires ==
    \E t \in sse.timers :
        /\ sse' = connect([sse EXCEPT !.timers = @ \ {t}])
        /\ ev' = [name |-> "timerFires", timer |-> t.id]
        /\ UNCHANGED <<todos, todosRef, cache, error, user, online, queueStore,
                       flush, statusQueueRef, statusStore, batches, deletes,
                       hist>>
        /\ UNCHANGED <<page, pureVars, token, requestVars>>

\* the sign-out button: logout() clears the token and the auth state, and the
\* effect is cleaned up because isAuthenticated changed
Logout ==
    /\ isAuthenticated
    /\ user' = NoUser
    /\ token' = FALSE
    /\ sse' = teardown(sse)
    /\ ev' = [name |-> "logout"]
    /\ UNCHANGED <<todos, todosRef, cache, error, online, queueStore, flush,
                   statusQueueRef, statusStore, batches, deletes, hist>>
    /\ UNCHANGED <<page, pureVars, requestVars>>

\* the board is left while the user stays signed in: only the cleanup runs
Unmount ==
    /\ isAuthenticated
    /\ ~sse.stopped
    /\ sse' = teardown(sse)
    /\ ev' = [name |-> "unmount"]
    /\ UNCHANGED <<todos, todosRef, cache, error, user, online, queueStore,
                   flush, statusQueueRef, statusStore, batches, deletes, hist>>
    /\ UNCHANGED <<page, pureVars, token, requestVars>>

\* the board of user 1, online, with its EventSource open
InitLive == InitEdit

\* a message pushed over the open EventSource
OnLiveMessage == \E msg \in BoardMessages : Deliver(msg)

NextLive ==
    \/ OnError
    \/ TimerFires
    \/ Logout
    \/ Unmount
    \/ OnLiveMessage

\* a timer that was set and not cleared fires
SpecLive == InitLive /\ [][NextLive]_vars /\ WF_vars(TimerFires)

(***************************************************************************)
(* Reload with a persisted pending list                                    *)
(***************************************************************************)
\* pending lists an earlier run of the board left in localStorage
StoredQueues ==
    {<<>>,
     <<[todoId |-> 3, status |-> "DONE"]>>,
     <<[todoId |-> 2, status |-> "IN_PROGRESS"],
       [todoId |-> 1, status |-> "DONE"]>>,
     <<[todoId |-> 1, status |-> "DONE"],
       [todoId |-> 2, status |-> "TODO"]>>}

\* the board of user 1 has just been reloaded: its first loadTodos is in flight
\* and localStorage holds what the earlier run persisted
InitRestore ==
    /\ todos = <<>> /\ todosRef = <<>> /\ error = ""
    /\ cache \in {NoItem, Item(BoardTree)}
    /\ user = 1 /\ online = TRUE
    /\ queueStore = NoItem
    /\ flush = <<>>
    /\ statusQueueRef = <<>>
    /\ statusStore \in {NoItem} \cup {Item(q) : q \in StoredQueues}
    /\ batches = <<>> /\ deletes = <<>>
    /\ ev = [name |-> "init"]
    /\ hist = HistInit
    /\ token = TRUE /\ sse = SseConnected
    /\ creates = <<>> /\ edits = <<>>
    /\ loads = <<[pc |-> "sent"]>>
    /\ server = ServerOf(BoardTree, 4)
    /\ now = 0
    /\ page = BoardPage(FALSE)
    /\ pTree = <<>> /\ pCall = NoCall /\ pOut = <<>> /\ pOut2 = <<>>

NextRestore ==
    \/ LoadDone
    \/ BoardUpdateStatus
    \/ FlushPendingStatusQueue
    \/ BatchSucceeded
    \/ BatchFailed

SpecRestore == InitRestore /\ [][NextRestore]_vars

(***************************************************************************)
(* Sessions: start with a stored token, sign-out, sign-in of a second user *)
(***************************************************************************)
\* HomePage's effects once isAuthenticated is true on a fresh instance: the
\* first loadTodos, flushOfflineQueue (a no-op offline) and the EventSource
HomePage_mount ==
    /\ page' = BoardPage(FALSE)
    /\ todos' = <<>> /\ todosRef' = <<>> /\ error' = ""
    /\ statusQueueRef' = <<>>
    /\ loads' = Append(loads, [pc |-> "sent"])
    /\ sse' = SseConnected
    /\ IF online
       THEN flushOfflineQueue_entry
       ELSE /\ ev' = Quiet
            /\ UNCHANGED <<queueStore, flush, hist>>

\* bootstrap of the AuthProvider after its await (the stored token is the one
\* of user 1): any failure of fetchProfile ends in logoutUser(); without a
\* token, or after a failure, the redirect effect leaves for /login
BootstrapDone ==
    /\ page.at = "boot"
    /\ \E outcome \in IF online THEN Outcomes \ {"offline"} ELSE {"offline"} :
        IF token /\ outcome = "ok"
        THEN /\ user' = 1
             /\ HomePage_mount
             /\ UNCHANGED token
        ELSE /\ user' = NoUser
             /\ token' = FALSE
             /\ page' = [at |-> "login", hasRestored |-> FALSE]
             /\ ev' = [name |-> "bootstrapFailed", outcome |-> outcome]
             /\ UNCHANGED <<todos, todosRef, error, statusQueueRef, loads,
                            sse, queueStore, flush, hist>>
    /\ UNCHANGED <<cache, online, statusStore, batches, deletes>>
    /\ UNCHANGED <<pureVars, creates, edits, server, now>>

\* login() of the AuthProvider for a second user, whose board on the server is
\* empty, followed by the board page
Login ==
    /\ page.at = "login"
    /\ online
    /\ user' = 2
    /\ token' = TRUE
    /\ server' = ServerOf(<<>>, server.nextId)
    /\ HomePage_mount
    /\ UNCHANGED <<cache, online, statusStore, batches, deletes>>
    /\ UNCHANGED <<pureVars, creates, edits, now>>

\* the sign-out button, or the redirect effect after a 401 ended the session,
\* once no request of the board is unanswered: HomePage is unmounted, its
\* state is gone, localStorage is left as it is
SignOut ==
    /\ page.at = "board"
    /\ creates = <<>> /\ loads = <<>> /\ flush = <<>> /\ batches = <<>>
    /\ user' = NoUser
    /\ token' = FALSE
    /\ sse' = teardown(sse)
    /\ page' = [at |-> "login", hasRestored |-> FALSE]
    /\ todos' = <<>> /\ todosRef' = <<>> /\ error' = ""
    /\ statusQueueRef' = <<>>
    /\ ev' = [name |-> "logout"]
    /\ hist' = [hist EXCEPT !.signedOut = @ \/ isAuthenticated]
    /\ UNCHANGED <<cache, online, queueStore, flush, statusStore, batches,
                   deletes>>
    /\ UNCHANGED <<pureVars, requestVars>>

\* the first user changes statuses; the second user only looks at the board
SessionUpdateStatus ==
    /\ page.at = "board" /\ user = 1
    /\ hist.nEvents < MaxChanges
    /\ HandleUpdateStatus

\* the tab is hidden or closed, or an "online" listener runs late
SessionFlush == hist.nEvents <= MaxChanges /\ FlushPendingStatusQueue

\* the connection of the first user drops before they change anything
SessionGoOffline ==
    page.at = "board" /\ user = 1 /\ hist.nEvents = 0 /\ GoOffline

\* the app is opened at "/" with or without a stored token of user 1;
\* localStorage holds at most the tree an earlier run of that user cached
InitSession ==
    /\ todos = <<>> /\ todosRef = <<>> /\ error = ""
    /\ token \in BOOLEAN
    /\ cache \in IF token THEN {NoItem, Item(BoardTree)} ELSE {NoItem}
    /\ user = NoUser /\ online \in BOOLEAN
    /\ queueStore = NoItem
    /\ flush = <<>>
    /\ statusQueueRef = <<>> /\ statusStore = NoItem
    /\ batches = <<>> /\ deletes = <<>>
    /\ ev = [name |-> "init"]
    /\ hist = HistInit
    /\ sse = SseNone
    /\ creates = <<>> /\ loads = <<>> /\ edits = <<>>
    /\ server = ServerOf(BoardTree, 4)
    /\ now = 0
    /\ page = [at |-> "boot", hasRestored |-> FALSE]
    /\ pTree = <<>> /\ pCall = NoCall /\ pOut = <<>> /\ pOut2 = <<>>

NextSession ==
    \/ BootstrapDone
    \/ Login
    \/ SignOut
    \/ SessionUpdateStatus
    \/ SessionGoOffline
    \/ OnlineEvent
    \/ LoadDone
    \/ FlushReplayOk
    \/ FlushReplayFail
    \/ FlushLoaded
    \/ SessionFlush
    \/ BatchSucceeded
    \/ BatchFailed

SpecSession == InitSession /\ [][NextSession]_vars

(***************************************************************************)
(* Properties of the reconciler (checked under SpecTree)                   *)
(***************************************************************************)
OwnFields(t) == [id |-> t.id, status |-> t.status, title |-> t.title,
                 parentId |-> t.parentId]

\* C6: applyStatusToList(tree, id, s) on a tree whose ids are distinct: a
\* root with that id gets status s and, only when s is DONE, all its children
\* get DONE; a child with that id gets status s while its parent's own fields
\* and its siblings stay as they were; every other root is unchanged.
C6_ApplyStatus ==
    (pCall.op = "applyStatus" /\ UniqueIds(pTree)) =>
        /\ Len(pOut) = Len(pTree)
        /\ \A i \in 1..Len(pTree) :
            LET r == pTree[i]
                o == pOut[i]
            IN  /\ Len(o.subtodos) = Len(r.subtodos)
                /\ IF r.id = pCall.id
                   THEN /\ OwnFields(o) = [OwnFields(r) EXCEPT !.status = pCall.status]
                        /\ \A j \in 1..Len(r.subtodos) :
                            o.subtodos[j] =
                                IF pCall.status = "DONE"
                                THEN [r.subtodos[j] EXCEPT !.status = "DONE"]
                                ELSE r.subtodos[j]
                   ELSE /\ OwnFields(o) = OwnFields(r)
                        /\ \A j \in 1..Len(r.subtodos) :
                            o.subtodos[j] =
                                IF r.subtodos[j].id = pCall.id
                                THEN [r.subtodos[j] EXCEPT !.status = pCall.status]
                                ELSE r.subtodos[j]

\* a root with two children that are not DONE was set to DONE, and so were they
C6_Witness ==
    /\ pCall.op = "applyStatus" /\ pCall.status = "DONE" /\ UniqueIds(pTree)
    /\ \E i \in 1..Len(pTree) :
        /\ pTree[i].id = pCall.id
        /\ Len(pTree[i].subtodos) = 2
        /\ \A j \in 1..2 : pTree[i].subtodos[j].status # "DONE"
        /\ \A j \in 1..2 : pOut[i].subtodos[j].status = "DONE"

\* C7 as stated: every reconciler operation, applied twice with the same
\* arguments, gives the tree that one application gives.
C7_AllIdempotent ==
    pCall.op # "none" => pOut2 = pOut

\* C7 amended: removeTodoFromTree, upsertTodoInTree, applyStatusToList and
\* applyMetaToList are idempotent; addSubTodoToParent is idempotent exactly
\* when no node of the tree has the id parentId (otherwise the second
\* application appends the child once more).
C7_Idempotent ==
    /\ pCall.op \in {"remove", "upsert", "applyStatus", "applyMeta"} => pOut2 = pOut
    /\ pCall.op = "add" => (pOut2 = pOut <=> ~HasId(pTree, pCall.id))

\* an operation that changed the tree and changes nothing when repeated
C7_Witness ==
    /\ pCall.op = "remove"
    /\ pOut # pTree
    /\ pOut2 = pOut

\* C8: upsertTodoInTree(tree, item) puts item in the place of every root and
\* every child whose id is item.id, keeps the number and order of nodes, and
\* leaves every other node as it was; with no matching id the tree is unchanged.
C8_Upsert ==
    pCall.op = "upsert" =>
        /\ Len(pOut) = Len(pTree)
        /\ \A i \in 1..Len(pTree) :
            IF pTree[i].id = pCall.item.id
            THEN pOut[i] = pCall.item
            ELSE /\ OwnFields(pOut[i]) = OwnFields(pTree[i])
                 /\ Len(pOut[i].subtodos) = Len(pTree[i].subtodos)
                 /\ \A j \in 1..Len(pTree[i].subtodos) :
                        pOut[i].subtodos[j] =
                            IF pTree[i].subtodos[j].id = pCall.item.id
                            THEN pCall.item
                            ELSE pTree[i].subtodos[j]
        /\ (~HasId(pTree, pCall.item.id) => pOut = pTree)

\* a child was replaced by the item, and in another call nothing matched
C8_Witness ==
    /\ pCall.op = "upsert"
    /\ \E i \in 1..Len(pTree) :
        /\ pTree[i].id # pCall.item.id
        /\ \E j \in 1..Len(pTree[i].subtodos) :
            /\ pTree[i].subtodos[j].id = pCall.item.id
            /\ pOut[i].subtodos[j] = pCall.item
            /\ pOut[i].subtodos[j] # pTree[i].subtodos[j]


(***************************************************************************)
(* Properties of the offline queue and its replay (checked under SpecQueue)*)
(***************************************************************************)
\* C1: when the persisted queue was last left empty (by a consume or by a
\* push-back of nothing) and only enqueueOperation calls followed, consumeQueue
\* returns exactly the enqueued operations in enqueue order; consumeQueue
\* always leaves the persisted queue empty, so a consume that follows with no
\* enqueue in between returns the empty list.
C1_EnqueueThenConsume ==
    ev.name = "consumeQueue" =>
        /\ queueStore = NoItem
        /\ readQueue(queueStore) = <<>>
        /\ ev.base = <<>> => ev.returned = ev.enqueued

\* two different operations were enqueued and came back in that order
C1_Witness ==
    /\ ev.name = "consumeQueue"
    /\ ev.enqueued = <<CreateOp("a", NoId), StatusOp(1, "DONE")>>
    /\ ev.returned = <<CreateOp("a", NoId), StatusOp(1, "DONE")>>
    /\ queueStore = NoItem

\* C2: a flush sends its drained operations one at a time in their order;
\* when the operation at index k fails, nothing after k is sent by that flush
\* and the queue it persists is operations[k..end) in the original order;
\* when none fails it persists the empty queue.
C2_ReplayRequeue ==
    /\ \A f \in 1..Len(flush) :
        LET operations == flush[f].operations
            attempted == flush[f].attempted
        IN  /\ attempted = SubSeq(operations, 1, Len(attempted))
            /\ Len(attempted) =
                    IF flush[f].index < Len(operations)
                    THEN flush[f].index + 1 ELSE Len(operations)
    /\ ev.name = "replayFailed" =>
            /\ ev.index < Len(ev.operations)
            /\ ev.attempted = SubSeq(ev.operations, 1, ev.index + 1)
            /\ readQueue(queueStore) =
                    SubSeq(ev.operations, ev.index + 1, Len(ev.operations))
    /\ ev.name = "replayDone" =>
            /\ ev.attempted = ev.operations
            /\ queueStore = NoItem

\* the second of two operations failed: the first is dropped, the second kept
C2_Witness ==
    /\ ev.name = "replayFailed"
    /\ ev.index = 1
    /\ ev.operations = <<CreateOp("a", NoId), StatusOp(1, "DONE")>>
    /\ ev.attempted = ev.operations
    /\ readQueue(queueStore) = <<StatusOp(1, "DONE")>>

(***************************************************************************)
(* Properties of the status batcher (checked under SpecBatcher)            *)
(***************************************************************************)
\* C3: the batcher holds at most one pending entry per item id; the entry
\* carries the status requested last for that item and the tree as it was
\* when the first request still pending for that item was recorded; the
\* payload a flush sends holds every pending item exactly once with that
\* latest status.
C3_OneEntryPerItem ==
    LET queue == statusQueueRef IN
    /\ \A i, j \in 1..Len(queue) :
            i # j => queue[i].todoId # queue[j].todoId
    /\ {queue[i].todoId : i \in 1..Len(queue)} = hist.pending
    /\ \A i \in 1..Len(queue) :
            /\ queue[i].status = hist.lastStatus[queue[i].todoId]
            /\ queue[i].snapshot = hist.firstTree[queue[i].todoId]
    /\ ev.name = "flushPendingStatusQueue" =>
            LET payload == batches[Len(batches)].payload IN
            /\ Len(payload) = Cardinality(hist.pending)
            /\ \A id \in hist.pending :
                \E k \in 1..Len(payload) :
                    /\ payload[k].id = id
                    /\ payload[k].status = hist.lastStatus[id]
                    /\ \A m \in 1..Len(payload) : payload[m].id = id => m = k

\* item 1 was moved twice before the flush: one entry, the last status, the
\* tree from before the first move
C3_Witness ==
    /\ ev.name = "flushPendingStatusQueue"
    /\ hist.coalesced = {1}
    /\ batches[Len(batches)].payload = <<[id |-> 1, status |-> "DONE"]>>
    /\ Len(statusQueueRef) = 1
    /\ statusQueueRef[1].snapshot = BoardTree

\* C4 as stated: when a batch flush succeeds the pending list becomes empty
\* in memory and in storage, and the tree is the tree from just before the
\* response was handled.
C4_FlushSuccessKeepsTree ==
    [][ev'.name = "batchSucceeded" =>
            /\ statusQueueRef' = <<>>
            /\ statusStore' = Item(<<>>)
            /\ todos' = todos]_vars

\* C5: when a batch request fails with anything but 401, the handler leaves
\* the pending entries (items, statuses, snapshots, order), their persisted
\* form, the tree and the cache exactly as they were.
C5_FlushFailureKeepsEntries ==
    [][ev'.name = "batchFailed" =>
            /\ statusQueueRef' = statusQueueRef
            /\ statusStore' = statusStore
            /\ todos' = todos
            /\ cache' = cache]_vars

\* a flush of two entries failed: both are still pending, the tree still
\* shows the optimistic statuses and the failure is reported
C5_Witness ==
    /\ ev.name = "batchFailed"
    /\ ~ev.keepalive
    /\ Len(statusQueueRef) = 2
    /\ batchPayload(statusQueueRef) = <<[id |-> 1, status |-> "IN_PROGRESS"],
                                        [id |-> 3, status |-> "DONE"]>>
    /\ todos = applyStatusToList(applyStatusToList(BoardTree, 1, "IN_PROGRESS"),
                                 3, "DONE")
    /\ error = "Failed to sync pending status updates"

(***************************************************************************)
(* Properties of the live update consumer (checked under SpecPush)         *)
(***************************************************************************)
\* C9: a pushed message whose userId is not the id of the signed-in user
\* changes neither the tree nor the persisted cache, whatever its type and
\* content.
C9_ForeignMessageIgnored ==
    [][(ev'.name = "onmessage" /\ ev'.msg.userId # user) =>
            /\ todos' = todos
            /\ cache' = cache]_vars

\* a delete of item 2 addressed to the other user arrived; item 2 is still there
C9_Witness ==
    /\ ev.name = "onmessage"
    /\ ev.msg.data = "object"
    /\ ev.msg.userId \in Users \ {user}
    /\ ev.msg.type = "delete"
    /\ ev.msg.removedIds = <<2>>
    /\ HasId(todos, 2)
    /\ hist.nMsg = 1

\* the fold the claim names, taken from the end of the list
RECURSIVE C10_FoldUpsert(_, _)
C10_FoldUpsert(items, tree) ==
    IF Len(items) = 0 THEN tree
    ELSE upsertTodoInTree(
            C10_FoldUpsert(SubSeq(items, 1, Len(items) - 1), tree),
            items[Len(items)])

RECURSIVE C10_FoldRemove(_, _)
C10_FoldRemove(ids, tree) ==
    IF Len(ids) = 0 THEN tree
    ELSE removeTodoFromTree(
            C10_FoldRemove(SubSeq(ids, 1, Len(ids) - 1), tree),
            ids[Len(ids)])

C10_WellFormed(msg) ==
    /\ msg.data = "object"
    /\ \/ /\ msg.type \in UpsertTypes
          /\ msg.hasTodos
          /\ \A i \in 1..Len(msg.todos) : ~msg.todos[i].isNull
       \/ /\ msg.type = "delete"
          /\ msg.hasRemovedIds

\* C10: for a message addressed to the signed-in user, type create, update,
\* status_single or status_batch makes the tree the fold of upsertTodoInTree
\* over the (normalised) items in order, type delete makes it the fold of
\* removeTodoFromTree over removedIds in order; any other type, a missing
\* list, a null item or an unparsable message leaves the tree as it was; the
\* error banner is never touched.
C10_MessageApplied ==
    [][(ev'.name = "onmessage" /\ (ev'.msg.userId = user \/ ev'.msg.data # "object")) =>
            LET msg == ev'.msg IN
            /\ error' = error
            /\ IF ~C10_WellFormed(msg) THEN todos' = todos
               ELSE IF msg.type = "delete"
               THEN todos' = C10_FoldRemove(msg.removedIds, todos)
               ELSE todos' = C10_FoldUpsert(
                                [i \in 1..Len(msg.todos) |->
                                    normalizeTodo(msg.todos[i])],
                                todos)]_vars

\* an update carrying root 1 (with a new child 2) and then child 2 alone was
\* applied: the later item wins for node 2
C10_Witness ==
    /\ ev.name = "onmessage"
    /\ ev.msg.userId = user
    /\ ev.msg.type = "update"
    /\ ev.msg.todos = <<RawB, RawA>>
    /\ hist.nMsg = 1
    /\ todos = <<Node(1, "TODO", "Untitled", NoId, <<Leaf(2, "DONE", "b", 1)>>),
                 Leaf(3, "IN_PROGRESS", "a", NoId)>>

(***************************************************************************)
(* Properties of the connection (checked under SpecLive)                   *)
(***************************************************************************)
C11_OpenSources == {s \in 1..Len(sse.sources) : sse.sources[s].open}

C11_ErrorStep ==
    ev'.name = "onerror" =>
        /\ ~sse'.sources[ev'.source].open
        /\ ~sse.stopped =>
            /\ Cardinality(sse'.timers \ sse.timers) = 1
            /\ \A t \in sse'.timers : t.delay = RetryDelayMs

\* C11: while the effect is not torn down, an error on a connection closes
\* that connection and sets one timer with the fixed retry delay; a consumer
\* without an open connection gets a new one (or is torn down); never more
\* than one connection is open.
C11_Reconnects ==
    /\ [](Cardinality(C11_OpenSources) <= 1)
    /\ [][C11_ErrorStep]_vars
    /\ ((sse.active /\ ~sse.stopped /\ C11_OpenSources = {})
            ~> (C11_OpenSources # {} \/ sse.stopped))

\* the first connection failed and the timer replaced it with a second, open one
C11_Witness ==
    /\ ev.name = "timerFires"
    /\ ~sse.stopped
    /\ Len(sse.sources) = 2
    /\ ~sse.sources[1].open
    /\ sse.sources[2].open
    /\ sse.ref = 2

\* C12: once the cleanup of the effect has run (sign-out or teardown), no
\* connection of that effect is open and none is constructed any more, even if
\* a timer fires or an error event is delivered afterwards.
C12_NoConnectionAfterTeardown ==
    /\ [](sse.stopped => C11_OpenSources = {})
    /\ [][sse.stopped => Len(sse'.sources) = Len(sse.sources)]_vars

\* a timer that the cleanup did not clear has fired after the teardown
C12_Witness ==
    /\ sse.stopped
    /\ ev.name = "timerFires"
    /\ hist.nErr = 2

(***************************************************************************)
(* Properties of the create handlers and of loadTodos (SpecCreate)         *)
(***************************************************************************)
\* the nodes of a tree in preorder, each without its children
RECURSIVE Flat(_)
Flat(list) ==
    IF Len(list) = 0 THEN <<>>
    ELSE <<OwnFields(list[1])>> \o Flat(list[1].subtodos) \o Flat(Tail(list))

C13_OfflineRootCreate ==
    /\ ev'.name = "createFailed"
    /\ ev'.offline
    /\ ev'.request.handler = "handleCreateTodo"
    /\ ~ev'.request.image

C13_Placeholders(list, tempId) ==
    SelectSeq(Flat(list), LAMBDA n : n.id = tempId)

\* C13: a root create (no image) that fails as offline leaves one
\* more create operation with its title, status TODO and no parent at the end
\* of the queue, and exactly one placeholder of that create (negative id,
\* status TODO) in the tree.
C13_OfflineCreateQueued ==
    [][C13_OfflineRootCreate =>
        /\ readQueue(queueStore') =
                Append(readQueue(queueStore),
                       [type |-> "createTodo", title |-> ev'.request.title,
                        parentId |-> NoId, id |-> NoId, status |-> "TODO"])
        /\ Len(C13_Placeholders(todos', ev'.request.tempId)) = 1
        /\ ev'.request.tempId < 0
        /\ C13_Placeholders(todos', ev'.request.tempId)[1].status = "TODO"]_vars

\* C17: a fetch that fails with something other than 401 while a cached tree
\* is stored makes the tree the cached tree, sets the offline banner and
\* leaves the cache untouched; a fetch that succeeds makes the tree and the
\* cache the fetched tree.
C17_LoadFallsBackToCache ==
    [][ev'.name = "loadTodos" =>
        /\ (ev'.outcome \in {"offline", "rejected"} /\ cache.present) =>
                /\ todos' = cache.value
                /\ error' = "Offline mode: showing cached todos."
                /\ cache' = cache
        /\ ev'.outcome = "ok" =>
                /\ todos' = ev'.data
                /\ cache' = Item(ev'.data)]_vars

\* a refused reload replaced the tree by a cached tree that differs from what
\* the server holds
C17_Witness ==
    /\ ev.name = "loadTodos"
    /\ ev.outcome = "rejected"
    /\ cache.present
    /\ todos = cache.value
    /\ todos # <<>>
    /\ todos # ev.data
    /\ error = "Offline mode: showing cached todos."

C19_ConfirmedIds(list) == SelectSeq(AllIds(list), LAMBDA id : id >= 0)

\* C19: while the board is shown no two nodes of the tree carry the same
\* non-negative id, and no node carries the placeholder id of a create that
\* has succeeded.
C19_UniqueConfirmedIds ==
    isAuthenticated =>
        /\ Cardinality(SeqToSet(C19_ConfirmedIds(todos))) =
                Len(C19_ConfirmedIds(todos))
        /\ \A t \in hist.confirmedTemps : ~HasId(todos, t)

(***************************************************************************)
(* Properties of deleting and editing (SpecEdit, SpecBatcher)              *)
(***************************************************************************)
\* C15: the delete handlers take the item and all of its children out of the
\* tree before the request is answered; when the request fails the tree
\* becomes the tree as it was when the handler started, and an error is shown.
C15_DeleteRollsBack ==
    [][/\ ev'.name = "deleteStart" =>
            /\ \A id \in SeqToSet(AllIds(<<ev'.target>>)) : ~HasId(todos', id)
            /\ \E i \in 1..Len(deletes') : deletes'[i].id = ev'.target.id
       /\ ev'.name = "deleteFailed" =>
            /\ todos' = ev'.request.treeAtStart
            /\ error' # ""]_vars

\* the delete of root 1 failed and brought root 1 and its child 2 back
C15_Witness ==
    /\ ev.name = "deleteFailed"
    /\ ev.request.id = 1
    /\ Len(ev.request.target.subtodos) = 1
    /\ todos = BoardTree
    /\ error = "Failed to delete todo"

C16_Answered ==
    {"loadTodos", "createFailed", "updateFailed", "deleteFailed",
     "replayFailed", "batchUnauthorized"}

\* C16: whatever request the server answers with 401, the stored token is
\* removed, the auth state becomes unauthenticated and the pending status
\* queue is emptied in memory and in storage.
C16_UnauthorizedEndsSession ==
    [][(ev'.name \in C16_Answered /\ ev'.outcome = "unauthorized") =>
            /\ token' = FALSE
            /\ user' = NoUser
            /\ statusQueueRef' = <<>>
            /\ statusStore' \in {NoItem, Item(<<>>)}]_vars

C20_Others(list, request) ==
    LET own == IF "target" \in DOMAIN request
               THEN SeqToSet(AllIds(<<request.target>>))
               ELSE {request.id}
    IN  SelectSeq(Flat(list), LAMBDA n : n.id \notin own)

\* C20: when a delete or a field edit of item x fails and every other
\* mutation started so far has been confirmed by the server (so that the
\* tree differs from x's snapshot only by x's own change, by confirmed
\* mutations and by pushed updates), the rollback changes nothing but x and,
\* for a delete, its children: every other node is after the rollback what
\* it was right before it.
C20_RollbackKeepsOtherChanges ==
    [][(/\ ev'.name \in {"deleteFailed", "updateFailed"}
        /\ hist.nConfirmed = hist.nEvents - 1) =>
            C20_Others(todos', ev'.request) = C20_Others(todos, ev'.request)]_vars

(***************************************************************************)
(* Property of the replay after a reconnect (SpecDrain)                    *)
(***************************************************************************)
C14_Confirmed(list) == Len(SelectSeq(AllIds(list), LAMBDA id : id >= 0))

C14_Drained ==
    /\ ~hasPendingOperations(queueStore)
    /\ \A t \in hist.queuedTemps : ~HasId(todos, t)
    /\ C14_Confirmed(todos) >=
            C14_Confirmed(BoardTree) + Cardinality(hist.queuedTemps)

\* C14: if from some point on the client is signed in and the network is
\* reachable, and the server refuses no replayed request and no reload, then
\* whenever a create has been queued, eventually the queue is empty, no
\* placeholder of a queued create is left in the tree, and the tree holds a
\* confirmed entry (non-negative id) for each of them.
C14_QueueDrains ==
    ([](hist.nRefused = 0) /\ <>[](online /\ isAuthenticated))
        => ((hist.queuedTemps # {}) ~> C14_Drained)

(***************************************************************************)
(* Properties of the batcher's requests (SpecBatcher)                      *)
(***************************************************************************)
C22_Ids(i) == {batches[i].payload[k].id : k \in 1..Len(batches[i].payload)}

\* C22: at any moment at most one unanswered batch status request contains a
\* given item id: no two requests in flight share an id.
C22_OneRequestPerItem ==
    \A i, j \in 1..Len(batches) :
        i # j => C22_Ids(i) \cap C22_Ids(j) = {}

(***************************************************************************)
(* Parents of created sub-items (SpecCreate)                               *)
(***************************************************************************)
C23_ParentOk(parentId) == parentId = NoId \/ parentId >= 0

\* C23: every create request in flight and every queued create operation has
\* a parentId that is absent or a non-negative, server-assigned id.
C23_ParentIsConfirmed ==
    /\ \A i \in 1..Len(creates) : C23_ParentOk(creates[i].parentId)
    /\ \A k \in 1..Len(readQueue(queueStore)) :
            readQueue(queueStore)[k].type = "createTodo"
                => C23_ParentOk(readQueue(queueStore)[k].parentId)

(***************************************************************************)
(* Operations enqueued during a replay (SpecQueue)                         *)
(***************************************************************************)
C24_IsSuffix(s, t) ==
    Len(s) <= Len(t) /\ SubSeq(t, Len(t) - Len(s) + 1, Len(t)) = s

\* C24: when a flush finishes its replay loop, the operations that were
\* enqueued while it was waiting for an answer (none of which it has sent) are
\* still in the persisted queue.
C24_EnqueuedDuringReplayKept ==
    [][ev'.name \in {"replayDone", "replayFailed"} =>
        C24_IsSuffix(hist.enqueued, readQueue(queueStore'))]_vars

\* C25: when a batch request is answered successfully, every pending entry
\* whose current status has been in no request sent so far is still a pending
\* entry afterwards.
C25_UnsentChangeKept ==
    [][ev'.name = "batchSucceeded" =>
        \A id \in hist.unsent :
            \E k \in 1..Len(statusQueueRef') : statusQueueRef'[k].todoId = id]_vars

(***************************************************************************)
(* Status changes of placeholders (SpecStatus)                             *)
(***************************************************************************)
C28_NoPlaceholderEntry ==
    /\ \A k \in 1..Len(statusQueueRef) : statusQueueRef[k].todoId >= 0
    /\ \A k \in 1..Len(readQueue(statusStore)) :
            readQueue(statusStore)[k].todoId >= 0
    /\ \A k \in 1..Len(readQueue(queueStore)) :
            readQueue(queueStore)[k].type = "updateStatus"
                => readQueue(queueStore)[k].id >= 0

\* C28: no pending entry of the batcher and no queued updateStatus operation
\* refers to a negative id, and a status change requested for a placeholder
\* changes neither the tree nor either queue.
C28_NoPlaceholderStatus ==
    [][/\ C28_NoPlaceholderEntry'
       /\ ev'.name = "statusRefused" =>
            /\ ev'.id < 0
            /\ todos' = todos
            /\ cache' = cache
            /\ statusQueueRef' = statusQueueRef
            /\ statusStore' = statusStore
            /\ queueStore' = queueStore]_vars

\* a status change was asked for a placeholder and refused
C28_Witness ==
    /\ ev.name = "statusRefused"
    /\ HasId(todos, ev.id)
    /\ ev.id < 0
    /\ error = "Please wait for this todo to sync before updating its status."
    /\ statusQueueRef = <<>>

(***************************************************************************)
(* Pending status entries and the tree (SpecStatus)                        *)
(***************************************************************************)
C29_Shown(id) ==
    LET found == SelectSeq(Flat(todos), LAMBDA n : n.id = id)
    IN  IF Len(found) = 0 THEN "" ELSE found[1].status

\* C29: whenever an item of the tree has a pending entry in the status
\* batcher, the status the tree shows for it is the entry's target status.
C29_PendingStatusShown ==
    \A k \in 1..Len(statusQueueRef) :
        HasId(todos, statusQueueRef[k].todoId)
            => C29_Shown(statusQueueRef[k].todoId) = statusQueueRef[k].status

(***************************************************************************)
(* Requests that carry an offline status change (SpecReconnect)            *)
(***************************************************************************)
\* the operation whose request a replaying flush is waiting for
C30_Replayed(f) == flush[f].operations[flush[f].index + 1]

\* C30: a status change made offline travels on one path only: no (item,
\* status) pair is carried by a request of the queue replay and by a batch
\* status request at the same time.
C30_OnePath ==
    \A f \in 1..Len(flush), i \in 1..Len(batches) :
        (flush[f].pc = "replaying" /\ C30_Replayed(f).type = "updateStatus")
            => \A k \in 1..Len(batches[i].payload) :
                    ~(/\ batches[i].payload[k].id = C30_Replayed(f).id
                      /\ batches[i].payload[k].status = C30_Replayed(f).status)

\* C21: localStorage keeps of every pending entry only its id and its status;
\* when the restore effect runs after the first load of a reloaded board, the
\* pending list is rebuilt with the stored pairs in the stored order, the
\* snapshot of the first entry is the loaded tree, the snapshot of every later
\* entry is the tree left by re-applying the entry before it, and the board
\* shows the tree left by re-applying the last one
C21_RestoreRebuildsQueue ==
    [][ /\ statusStore'.present =>
            \A i \in 1..Len(statusStore'.value) :
                DOMAIN statusStore'.value[i] = {"todoId", "status"}
        /\ ( /\ ev'.name = "loadTodos"
             /\ ~page.hasRestored /\ page'.hasRestored
             /\ statusStore.present /\ Len(statusStore.value) > 0 ) =>
            LET stored == statusStore.value
                rebuilt == statusQueueRef'
                loaded == loadTodos_todos(ev'.outcome, ev'.data)
                after(i) == applyStatusToList(rebuilt[i].snapshot,
                                              rebuilt[i].todoId,
                                              rebuilt[i].status)
            IN  /\ Len(rebuilt) = Len(stored)
                /\ \A i \in 1..Len(stored) :
                    /\ rebuilt[i].todoId = stored[i].todoId
                    /\ rebuilt[i].status = stored[i].status
                    /\ rebuilt[i].snapshot =
                            IF i = 1 THEN loaded ELSE after(i - 1)
                /\ todos' = after(Len(stored))
                /\ statusStore' = statusStore ]_vars

\* the restore effect has rebuilt two entries, and re-applying the first one
\* changed the tree the second one holds as its snapshot
C21_Witness ==
    /\ ev.name = "loadTodos"
    /\ page.hasRestored
    /\ Len(statusQueueRef) = 2
    /\ statusQueueRef[2].snapshot # statusQueueRef[1].snapshot
    /\ todos # statusQueueRef[2].snapshot

\* C27: when the app starts with a stored token while the network is
\* unreachable, the failed profile request does not discard the token and the
\* board stays on screen (where the first load then shows the cached tree,
\* marked as offline)
C27_OfflineStartKeepsSession ==
    [][ ( /\ page.at = "boot" /\ token /\ ~online
          /\ page'.at # "boot" ) =>
            (token' /\ page'.at = "board") ]_vars

\* C26: once a second user has signed in on the client of the first one, who
\* alone recorded operations and status changes, no replay and no batch is
\* sent under the second user's token, no pending entry of the first user is
\* back in the list, and the board (the second user's board is empty on the
\* server) does not show the tree cached for the first user
C26_NoCrossSessionData ==
    (user = 2 /\ hist.signedOut) =>
        /\ flush = <<>>
        /\ batches = <<>>
        /\ statusQueueRef = <<>>
        /\ todos = <<>>

====
